---- MODULE Spec2Model ----
(***************************************************************************)
(* Model of the multi-chain price monitor: the ChainManager (per-network   *)
(* RPC endpoints with failover), the MevBot process life cycle, the        *)
(* DexMonitor poller with its price cache, and the PriceCalculator that    *)
(* compares the cached quotes.                                             *)
(*                                                                         *)
(* Array indices are 0-based as in the TypeScript source.  A provider is   *)
(* identified by the index of the endpoint it was created for; Null (-1)   *)
(* stands for the source's null.                                           *)
(***************************************************************************)
EXTENDS Integers, Sequences, FiniteSets, TLC

(***************************************************************************)
(* Program constants                                                       *)
(***************************************************************************)
ETHEREUM == 1
ARBITRUM == 42161
POLYGON == 137
BASE == 8453
MAX_RETRIES == 3
PRETRY_RETRIES == 2
PRICE_UPDATE_INTERVAL == 1000
MAX_PRICE_AGE == 60000
MAX_CONCURRENT_REQUESTS == 10
\* config.trading: the defaults of MIN_PROFIT_THRESHOLD (percent) and
\* MAX_GAS_COST (USD) in the environment schema
MIN_PROFIT_THRESHOLD == 2
MAX_GAS_COST == 100
Null == -1

(***************************************************************************)
(* Bounds of the model                                                     *)
(***************************************************************************)
\* endpoints configured per chain (the source configures 3 http + 2 ws)
NumEndpoints == 2

\* largest reserve a pair contract reports
MaxReserve == 1

\* number of polling periods the model follows after the first one
MaxTicks == 1

\* callbacks of the price timer the model follows at the same time
MaxCallbacks == 2

\* the chains of the model: two of the four the source initializes
Chains == <<ETHEREUM, ARBITRUM>>
ChainSet == {Chains[k] : k \in 1..Len(Chains)}
Endpoints == 0..(NumEndpoints - 1)

\* number of failed attempts a probe of one endpoint meets before one
\* succeeds; PRETRY_RETRIES + 1 means that every attempt pRetry makes fails
ProbeOutcomes == 0..(PRETRY_RETRIES + 1)
AllProbes == [Endpoints -> ProbeOutcomes]

VARIABLES
  connections,   \* ChainManager.connections : chainId -> ChainConnection
  phase,         \* life cycle of the process: "init", "starting", "running", "exited"
  exitCause,     \* why the process exited: "none", "config", "database", "connection"
  startIdx,      \* position of testChainConnections in its list of chains
  healthIdx,     \* position of performHealthCheck in the connection map (0 = not running)
  trace,         \* what the last ChainManager call did (observation only)
  clock,         \* Date.now()
  cycle,         \* monitorPrices: "idle", or "running" (awaiting allSettled)
  tasks,         \* the fetchPriceForDex promises of the current cycle
  priceCache,    \* DexMonitor.priceCache : cacheKey -> PriceData
  lastUpdateTime, \* DexMonitor.lastUpdateTime : cacheKey -> time
  detection,     \* what the last run of the detector did (observation only)
  closed,        \* the chains whose providers ChainManager.close has destroyed
  lifecycle      \* MevBot: isRunning, its interval handles, the live timers, the calls in flight

botVars == <<phase, exitCause, startIdx, healthIdx>>
pollVars == <<clock, cycle, tasks, priceCache, lastUpdateTime>>
detVars == <<detection>>
stopVars == <<closed, lifecycle>>
vars == <<connections, phase, exitCause, startIdx, healthIdx, trace,
          clock, cycle, tasks, priceCache, lastUpdateTime, detection, closed,
          lifecycle>>

(***************************************************************************)
(* ChainManager                                                            *)
(***************************************************************************)
\* createRpcConnections: every configured url starts active with no errors
createRpcConnections ==
  [i \in Endpoints |->
     [isActive |-> TRUE, errorCount |-> 0, maxRetries |-> MAX_RETRIES]]

\* initializeConnections: the ChainConnection stored for each chain
initializeConnections ==
  [c \in ChainSet |->
     [chainId |-> c,
      provider |-> Null,
      wsProvider |-> Null,
      connections |-> createRpcConnections,
      currentConnectionIndex |-> 0,
      isHealthy |-> FALSE,
      lastBlockNumber |-> 0]]

\* a loop that skips no endpoint
skippedNever(rpcConnection) == FALSE

\* the skip test at the head of establishConnection's loop
skipped(rpcConnection) ==
  ~rpcConnection.isActive \/ rpcConnection.errorCount >= rpcConnection.maxRetries

\* pRetry's onFailedAttempt callback
onFailedAttempt(conn, i) ==
  [conn EXCEPT !.connections[i].errorCount = @ + 1]

\* a successful attempt that leaves the error counter as it is
attemptSucceededNoReset(conn, i) == conn

\* the body pRetry runs, when provider.getBlockNumber() answers
attemptSucceeded(conn, i) ==
  [conn EXCEPT !.connections[i].errorCount = 0]

\* the catch block of establishConnection, once pRetry has given up
endpointFailed(conn, i) ==
  [conn EXCEPT !.connections[i].errorCount = @ + 1,
               !.connections[i].isActive = FALSE]

\* a connection update that forgets the index of the endpoint in use
connectedStaleIndex(conn, i) ==
  [conn EXCEPT !.provider = i,
               !.isHealthy = TRUE]

\* "Update connection state" after pRetry returned a provider
connected(conn, i) ==
  [conn EXCEPT !.provider = i,
               !.currentConnectionIndex = i,
               !.isHealthy = TRUE]

\* an exhausted loop that reports the connection healthy
allFailedMarksHealthy(conn) ==
  [conn EXCEPT !.isHealthy = TRUE]

\* "All connections failed"
allFailed(conn) ==
  [conn EXCEPT !.isHealthy = FALSE]

\* pRetry with retries: 2 on endpoint i, of which the first f attempts fail:
\* every failed attempt calls onFailedAttempt, the first success ends it
RECURSIVE pRetry(_, _, _, _)
pRetry(conn, i, f, attempt) ==
  IF attempt > PRETRY_RETRIES + 1 THEN [ok |-> FALSE, conn |-> conn]
  ELSE IF attempt > f THEN [ok |-> TRUE, conn |-> attemptSucceeded(conn, i)]
  ELSE pRetry(onFailedAttempt(conn, i), i, f, attempt + 1)

\* the for loop of establishConnection from index i on; fails[j] is the
\* number of failing attempts endpoint j answers a probe with
RECURSIVE establishLoop(_, _, _, _)
establishLoop(conn, fails, i, probed) ==
  IF i >= NumEndpoints
  THEN [conn |-> allFailed(conn), provider |-> Null, ok |-> FALSE, probed |-> probed]
  ELSE IF skipped(conn.connections[i])
  THEN establishLoop(conn, fails, i + 1, probed)
  ELSE LET r == pRetry(conn, i, fails[i], 1) IN
       IF r.ok
       THEN [conn |-> connected(r.conn, i), provider |-> i, ok |-> TRUE,
             probed |-> Append(probed, i)]
       ELSE establishLoop(endpointFailed(r.conn, i), fails, i + 1, Append(probed, i))

establishConnection(conn, fails) ==
  [established |-> TRUE] @@ establishLoop(conn, fails, 0, <<>>)

\* a getProvider without the cache test
getProviderNoCache(conn, fails) == establishConnection(conn, fails)

\* getProvider: the cached provider when there is one and the connection is
\* healthy, establishConnection otherwise
getProvider(conn, fails) ==
  IF conn.provider # Null /\ conn.isHealthy
  THEN [conn |-> conn, provider |-> conn.provider, ok |-> TRUE, probed |-> <<>>,
        established |-> FALSE]
  ELSE establishConnection(conn, fails)

\* what the endpoints answer during one call: with a healthy cached provider
\* no endpoint is asked, and the answers are listed once
ProbeInputs(conn) ==
  IF conn.provider # Null /\ conn.isHealthy THEN {[i \in Endpoints |-> 0]} ELSE AllProbes

\* the urls of createRpcConnections are the http urls of the chain followed
\* by its ws urls: the second half of the list starts with wss://
startsWithWss(i) == i >= NumEndpoints \div 2

\* the for loop of getWebSocketProvider over the list wsConnections from
\* position k on; answers[i] says whether getBlockNumber of endpoint i answers
RECURSIVE webSocketLoop(_, _, _, _, _)
webSocketLoop(conn, wsConnections, answers, k, probed) ==
  IF k > Len(wsConnections)
  THEN [conn |-> conn, provider |-> Null, ok |-> FALSE, probed |-> probed]
  ELSE LET i == wsConnections[k] IN
       IF answers[i]
       THEN [conn |-> [conn EXCEPT !.connections[i].errorCount = 0,
                                   !.wsProvider = i,
                                   !.isHealthy = TRUE],
             provider |-> i, ok |-> TRUE, probed |-> Append(probed, i)]
       ELSE webSocketLoop([conn EXCEPT !.connections[i].errorCount = @ + 1,
                                       !.connections[i].isActive = FALSE],
                          wsConnections, answers, k + 1, Append(probed, i))

\* getWebSocketProvider: the cached provider when there is one and the
\* connection is healthy; otherwise the first active wss endpoint that
\* answers one probe
getWebSocketProvider(conn, answers) ==
  IF conn.wsProvider # Null /\ conn.isHealthy
  THEN [conn |-> conn, provider |-> conn.wsProvider, ok |-> TRUE, probed |-> <<>>,
        established |-> FALSE]
  ELSE
    LET wsConnections ==
          SelectSeq([k \in 1..NumEndpoints |-> k - 1],
                    LAMBDA i : startsWithWss(i) /\ conn.connections[i].isActive)
    IN  [established |-> TRUE] @@ webSocketLoop(conn, wsConnections, answers, 1, <<>>)

\* updateBlockInfo: getProvider, then one block read through the provider;
\* readOk says whether provider.getBlockNumber()/getBlock() answer, block is
\* the height they report
updateBlockInfo(conn, fails, readOk, block) ==
  LET r == getProvider(conn, fails) IN
  IF r.ok /\ readOk
  THEN [r EXCEPT !.conn.lastBlockNumber = block]
  ELSE [r EXCEPT !.conn.isHealthy = FALSE, !.ok = FALSE]

\* getConnectionStatus: chainId -> isHealthy
getConnectionStatus == [c \in ChainSet |-> connections[c].isHealthy]

NoTrace ==
  [op |-> "none", chainId |-> Chains[1], established |-> FALSE, probed |-> <<>>,
   ok |-> FALSE, provider |-> Null]

Traced(op, c, r) ==
  [op |-> op, chainId |-> c, established |-> r.established, probed |-> r.probed,
   ok |-> r.ok, provider |-> r.provider]

(***************************************************************************)
(* DexMonitor                                                              *)
(***************************************************************************)
\* the venues of the model, in the order of DEX_CONFIGS: a constant-product
\* venue on each chain and one venue fetchPriceForDex has no case for
DEX_CONFIGS ==
  << [name |-> "uniswap_v2", chainId |-> ETHEREUM, isActive |-> TRUE],
     [name |-> "sushiswap", chainId |-> ARBITRUM, isActive |-> TRUE],
     [name |-> "camelot", chainId |-> ARBITRUM, isActive |-> TRUE] >>

\* the pairs of the model: the first of TOKEN_PAIRS
TOKEN_PAIRS == << [baseToken |-> "ETH", quoteToken |-> "USDC"] >>

getActiveDexConfigs == SelectSeq(DEX_CONFIGS, LAMBDA dex : dex.isActive)

\* the (dexConfig, tokenPair) combinations in the order monitorPrices pushes
\* their promises
Matrix ==
  [n \in 1..(Len(getActiveDexConfigs) * Len(TOKEN_PAIRS)) |->
     [dexConfig |-> getActiveDexConfigs[((n - 1) \div Len(TOKEN_PAIRS)) + 1],
      tokenPair |-> TOKEN_PAIRS[((n - 1) % Len(TOKEN_PAIRS)) + 1]]]

TaskIds == 1..Len(Matrix)

\* `${chainId}-${name}-${baseToken}-${quoteToken}`, as the list of its parts
cacheKey(dexConfig, tokenPair) ==
  <<dexConfig.chainId, dexConfig.name, tokenPair.baseToken, tokenPair.quoteToken>>

keyOf(t) == cacheKey(Matrix[t].dexConfig, Matrix[t].tokenPair)

\* a Map: the function whose domain is the set of keys present
EmptyMap == [k \in {} |-> 0]
mapSet(m, k, v) == [x \in (DOMAIN m) \cup {k} |-> IF x = k THEN v ELSE m[x]]
mapHas(m, k) == k \in DOMAIN m

\* getCachedPrice: the key is `${chainId}-${dexName}-${tokenPair}`, as the
\* list of its parts, tokenPair being a string such as "ETH/USDC" (the list
\* of its parts in the model); priceCache.get(cacheKey) || null
getCachedPrice(cache, chainId, dexName, tokenPair) ==
  LET key == <<chainId, dexName>> \o tokenPair IN
  IF mapHas(cache, key) THEN [found |-> TRUE, priceData |-> cache[key]]
  ELSE [found |-> FALSE]

\* Date.now() when the process starts, and the last time the model follows
StartTime == PRICE_UPDATE_INTERVAL
MaxClock == StartTime + MaxTicks * PRICE_UPDATE_INTERVAL

\* a / b on JavaScript numbers, kept as the fraction: x / 0 is Infinity for
\* x > 0 and 0 / 0 is NaN
divide(a, b) == [num |-> a, den |-> b]
\* x > 0 on JavaScript numbers (false for NaN, true for Infinity)
positive(x) == x.num > 0

\* what the reads of one quote fetch answer: the block and fee reads of
\* fetchPriceForDex, the pair address lookup, getReserves and token0
\* (a read that fails leaves the later ones unread: they are listed once)
QuoteReads ==
  [readOk : {FALSE}, pairAddress : {Null}, reserve0 : {0}, reserve1 : {0},
   isToken0Base : {TRUE}]
  \cup
  [readOk : {TRUE}, pairAddress : {Null}, reserve0 : {0}, reserve1 : {0},
   isToken0Base : {TRUE}]
  \cup
  [readOk : {TRUE}, pairAddress : {1}, reserve0 : 0..MaxReserve,
   reserve1 : 0..MaxReserve, isToken0Base : BOOLEAN]

\* fetchUniswapV2Price: the quote computed from the reserves, or the error
fetchUniswapV2Price(dexConfig, tokenPair, rd, time) ==
  IF rd.pairAddress = Null THEN [ok |-> FALSE]
  ELSE
    LET baseReserve == IF rd.isToken0Base THEN rd.reserve0 ELSE rd.reserve1
        quoteReserve == IF rd.isToken0Base THEN rd.reserve1 ELSE rd.reserve0
    IN  [ok |-> TRUE,
         priceData |->
           [chainId |-> dexConfig.chainId,
            dexName |-> dexConfig.name,
            tokenPair |-> <<tokenPair.baseToken, "/", tokenPair.quoteToken>>,
            baseToken |-> tokenPair.baseToken,
            quoteToken |-> tokenPair.quoteToken,
            price |-> divide(quoteReserve, baseReserve),
            liquidity |-> baseReserve + quoteReserve,
            timestamp |-> time]]

\* calculateUniswapV3Price: Number(s * s * Q96) / Number(Q96 * Q96), which
\* is s * s / 2^96; sqrtPrice is sqrtPriceX96 in units of 2^48
calculateUniswapV3Price(sqrtPrice) == divide(sqrtPrice * sqrtPrice, 1)

\* fetchUniswapV3Price: the quote computed from slot0 and liquidity(), or
\* the error
fetchUniswapV3Price(dexConfig, tokenPair, rd, time) ==
  IF rd.poolAddress = Null THEN [ok |-> FALSE]
  ELSE [ok |-> TRUE,
        priceData |->
          [chainId |-> dexConfig.chainId,
           dexName |-> dexConfig.name,
           tokenPair |-> <<tokenPair.baseToken, "/", tokenPair.quoteToken>>,
           baseToken |-> tokenPair.baseToken,
           quoteToken |-> tokenPair.quoteToken,
           price |-> calculateUniswapV3Price(rd.sqrtPrice),
           liquidity |-> rd.liquidity,
           timestamp |-> time]]

fetchSushiSwapPrice(dexConfig, tokenPair, rd, time) ==
  fetchUniswapV2Price(dexConfig, tokenPair, rd, time)

\* the switch of fetchPriceForDex on the venue name
supported(dexConfig) == dexConfig.name \in {"uniswap_v2", "uniswap_v3", "sushiswap"}

NoTask == [pc |-> "none", now |-> 0, lastUpdate |-> 0]

\* fetchPriceForDex up to its first await: the locals now and lastUpdate, and
\* the rate-limit test
fetchPriceForDex(t, time, updated) ==
  LET k == keyOf(t)
      lastUpdate == IF mapHas(updated, k) THEN updated[k] ELSE 0
  IN  [pc |-> IF time - lastUpdate < PRICE_UPDATE_INTERVAL THEN "skipped" ELSE "resolve",
       now |-> time,
       lastUpdate |-> lastUpdate]

settled(task) == task.pc \in {"skipped", "unsupported", "stored", "failed"}

\* Promise.all(promises): rejected with the first rejection, fulfilled when
\* every promise is
allOrFirstRejection(ts) ==
  \/ \E t \in TaskIds : ts[t].pc = "failed"
  \/ \A t \in TaskIds : settled(ts[t])

\* Promise.allSettled(promises): every promise fulfilled or rejected
allSettled(ts) == \A t \in TaskIds : settled(ts[t])


\* no run of the detector yet
NoDetection == [op |-> "none"]

(***************************************************************************)
(* MevBot                                                                  *)
(***************************************************************************)
\* the start() calls the life-cycle specification follows
MaxStarts == 2
StartCalls == 1..MaxStarts

\* new MevBot(): isRunning false and both interval handles undefined (0);
\* timers are the intervals setInterval has created and clearInterval has
\* not cleared, starts the position of every start() call, stopping whether
\* a stop() call awaits cleanupServices, stopReturned whether a stop() call
\* has returned since the last start() call, cycles the callbacks begun
NewBot ==
  [isRunning |-> FALSE,
   healthCheckInterval |-> 0,
   priceMonitoringInterval |-> 0,
   timers |-> {},
   starts |-> [n \in StartCalls |-> "idle"],
   stopping |-> FALSE,
   stopReturned |-> FALSE,
   cycles |-> {}]

Init ==
  /\ connections = initializeConnections
  /\ phase = "init"
  /\ exitCause = "none"
  /\ startIdx = 1
  /\ healthIdx = 0
  /\ trace = NoTrace
  /\ clock = StartTime
  /\ cycle = "idle"
  /\ tasks = [t \in TaskIds |-> NoTask]
  /\ priceCache = EmptyMap
  /\ lastUpdateTime = EmptyMap
  /\ detection = NoDetection
  /\ closed = {}
  /\ lifecycle = NewBot

\* module load and the head of start(): getConfig() throws on an invalid
\* environment, initializeServices throws when the database cannot be opened;
\* both end in process.exit(1)
Boot ==
  /\ phase = "init"
  /\ \E configValid \in BOOLEAN, dbConnected \in BOOLEAN :
       /\ phase' = IF configValid /\ dbConnected THEN "starting" ELSE "exited"
       /\ exitCause' = IF ~configValid THEN "config"
                       ELSE IF ~dbConnected THEN "database" ELSE "none"
  /\ UNCHANGED <<connections, startIdx, healthIdx, trace, pollVars, detVars, stopVars>>

\* one iteration of testChainConnections: getProvider and a block read; an
\* error is rethrown up to bot.start().catch, which exits the process
testChainConnectionsWith(probes) ==
  /\ phase = "starting"
  /\ startIdx <= Len(Chains)
  /\ LET c == Chains[startIdx] IN
     \E fails \in ProbeInputs(connections[c]) \cap probes, readOk \in BOOLEAN :
       LET r == getProvider(connections[c], fails) IN
       /\ connections' = [connections EXCEPT ![c] = r.conn]
       /\ trace' = Traced("getProvider", c, r)
       /\ IF r.ok /\ readOk
          THEN /\ startIdx' = startIdx + 1
               /\ phase' = IF startIdx = Len(Chains) THEN "running" ELSE "starting"
               /\ exitCause' = exitCause
          ELSE /\ startIdx' = startIdx
               /\ phase' = "exited"
               /\ exitCause' = "connection"
  /\ UNCHANGED <<healthIdx, pollVars, detVars, stopVars>>

testChainConnections == testChainConnectionsWith(AllProbes)

\* the getProvider call of a price fetch (fetchPriceForDex) or of a gas
\* estimate (estimateGasCost) while the bot runs
resolve(c) ==
  /\ phase = "running"
  /\ \E fails \in ProbeInputs(connections[c]) :
       LET r == getProvider(connections[c], fails) IN
       /\ connections' = [connections EXCEPT ![c] = r.conn]
       /\ trace' = Traced("getProvider", c, r)
  /\ UNCHANGED <<phase, exitCause, startIdx, healthIdx, pollVars, detVars, stopVars>>

\* the health-check timer fires and performHealthCheck starts its loop
startHealthChecks ==
  /\ phase = "running"
  /\ healthIdx = 0
  /\ healthIdx' = 1
  /\ trace' = NoTrace
  /\ UNCHANGED <<connections, phase, exitCause, startIdx, pollVars, detVars, stopVars>>

\* one iteration of performHealthCheck: updateBlockInfo of the next chain
performHealthCheckWith(probes) ==
  /\ phase = "running"
  /\ healthIdx >= 1
  /\ LET c == Chains[healthIdx] IN
     \E fails \in ProbeInputs(connections[c]) \cap probes, readOk \in BOOLEAN :
       LET r == updateBlockInfo(connections[c], fails, readOk, 1) IN
       /\ connections' = [connections EXCEPT ![c] = r.conn]
       /\ trace' = Traced("updateBlockInfo", c, r)
  /\ healthIdx' = IF healthIdx = Len(Chains) THEN 0 ELSE healthIdx + 1
  /\ UNCHANGED <<phase, exitCause, startIdx, pollVars, detVars, stopVars>>

performHealthCheck == performHealthCheckWith(AllProbes)

Next ==
  \/ Boot
  \/ testChainConnections
  \/ \E c \in ChainSet : resolve(c)
  \/ startHealthChecks
  \/ performHealthCheck

Spec == Init /\ [][Next]_vars

(***************************************************************************)
(* ChainManager: its callers also ask for WebSocket providers              *)
(***************************************************************************)
\* a getWebSocketProvider call while the bot runs
resolveWebSocket(c) ==
  /\ phase = "running"
  /\ \E answers \in [Endpoints -> BOOLEAN] :
       LET r == getWebSocketProvider(connections[c], answers) IN
       /\ connections' = [connections EXCEPT ![c] = r.conn]
       /\ trace' = Traced("getWebSocketProvider", c, r)
  /\ UNCHANGED <<phase, exitCause, startIdx, healthIdx, pollVars, detVars, stopVars>>

ManagerNext ==
  \/ Boot
  \/ testChainConnections
  \/ \E c \in ChainSet : resolve(c)
  \/ \E c \in ChainSet : resolveWebSocket(c)
  \/ startHealthChecks
  \/ performHealthCheck

ManagerSpec == Init /\ [][ManagerNext]_vars

(***************************************************************************)
(* DexMonitor: the steps of one polling cycle                              *)
(***************************************************************************)
\* the price timer fires: monitorPrices starts every fetch of the cycle
monitorPrices ==
  /\ phase = "running"
  /\ cycle = "idle"
  /\ cycle' = "running"
  /\ tasks' = [t \in TaskIds |-> fetchPriceForDex(t, clock, lastUpdateTime)]
  /\ trace' = NoTrace
  /\ UNCHANGED <<connections, botVars, detVars, stopVars, clock, priceCache, lastUpdateTime>>

\* a fetch goes on with the provider whatever getProvider did
goesOnAnyway(r) == "read"

\* await chainManager.getProvider(...) inside the try block of a fetch: an
\* error of getProvider lands in the catch block
goesOn(r) == IF r.ok THEN "read" ELSE "failed"

\* await chainManager.getProvider(...) of one fetch
fetchResolveWith(t, probes) ==
  /\ cycle = "running"
  /\ tasks[t].pc = "resolve"
  /\ LET c == Matrix[t].dexConfig.chainId IN
     \E fails \in ProbeInputs(connections[c]) \cap probes :
       LET r == getProvider(connections[c], fails) IN
       /\ connections' = [connections EXCEPT ![c] = r.conn]
       /\ trace' = Traced("getProvider", c, r)
       /\ tasks' = [tasks EXCEPT ![t].pc = goesOn(r)]
  /\ UNCHANGED <<botVars, detVars, stopVars, clock, cycle, priceCache, lastUpdateTime>>

fetchResolve(t) == fetchResolveWith(t, AllProbes)

\* the reads of one fetch and what follows them without a further await:
\* the switch on the venue, the quote, and the two cache writes
fetchQuoteFrom(t, reads) ==
  /\ cycle = "running"
  /\ tasks[t].pc = "read"
  /\ \E rd \in reads :
       LET dexConfig == Matrix[t].dexConfig
           tokenPair == Matrix[t].tokenPair
           q == IF dexConfig.name = "sushiswap"
                THEN fetchSushiSwapPrice(dexConfig, tokenPair, rd, clock)
                ELSE fetchUniswapV2Price(dexConfig, tokenPair, rd, clock)
       IN
       IF ~rd.readOk
       THEN /\ tasks' = [tasks EXCEPT ![t].pc = "failed"]
            /\ UNCHANGED <<priceCache, lastUpdateTime>>
       ELSE IF ~supported(dexConfig)
       THEN /\ tasks' = [tasks EXCEPT ![t].pc = "unsupported"]
            /\ UNCHANGED <<priceCache, lastUpdateTime>>
       ELSE IF ~q.ok
       THEN /\ tasks' = [tasks EXCEPT ![t].pc = "failed"]
            /\ UNCHANGED <<priceCache, lastUpdateTime>>
       ELSE /\ priceCache' = mapSet(priceCache, keyOf(t), q.priceData)
            /\ lastUpdateTime' = mapSet(lastUpdateTime, keyOf(t), tasks[t].now)
            /\ tasks' = [tasks EXCEPT ![t].pc = "store"]
  /\ trace' = NoTrace
  /\ UNCHANGED <<connections, botVars, detVars, stopVars, clock, cycle>>

fetchQuote(t) == fetchQuoteFrom(t, QuoteReads)

\* await databaseService.storePriceData(...): it rethrows a failed save,
\* which lands in the catch block of fetchPriceForDex
fetchStore(t) ==
  /\ cycle = "running"
  /\ tasks[t].pc = "store"
  /\ \E saved \in BOOLEAN :
       tasks' = [tasks EXCEPT ![t].pc = IF saved THEN "stored" ELSE "failed"]
  /\ trace' = NoTrace
  /\ UNCHANGED <<connections, botVars, detVars, stopVars, clock, cycle, priceCache, lastUpdateTime>>

\* await Promise.allSettled(promises) returns and monitorPrices with it
monitorPricesReturn ==
  /\ cycle = "running"
  /\ allSettled(tasks)
  /\ cycle' = "idle"
  /\ trace' = NoTrace
  /\ UNCHANGED <<connections, botVars, detVars, stopVars, clock, tasks, priceCache, lastUpdateTime>>

\* one polling period passes between two runs of the price timer's callback
tick ==
  /\ phase = "running"
  /\ cycle = "idle"
  /\ clock < MaxClock
  /\ clock' = clock + PRICE_UPDATE_INTERVAL
  /\ trace' = NoTrace
  /\ UNCHANGED <<connections, botVars, detVars, stopVars, cycle, tasks, priceCache, lastUpdateTime>>

PollerNext ==
  \/ Boot
  \/ testChainConnections
  \/ monitorPrices
  \/ \E t \in TaskIds : fetchResolve(t)
  \/ \E t \in TaskIds : fetchQuote(t)
  \/ \E t \in TaskIds : fetchStore(t)
  \/ monitorPricesReturn
  \/ tick

PollerSpec == Init /\ [][PollerNext]_vars

(***************************************************************************)
(* DexMonitor: the fan-out of one cycle over every configured venue        *)
(***************************************************************************)
\* DEX_CONFIGS in full: name and chain of its twelve entries
ALL_DEX_CONFIGS ==
  << [name |-> "uniswap_v2", chainId |-> ETHEREUM, isActive |-> TRUE],
     [name |-> "uniswap_v3", chainId |-> ETHEREUM, isActive |-> TRUE],
     [name |-> "sushiswap", chainId |-> ETHEREUM, isActive |-> TRUE],
     [name |-> "uniswap_v3", chainId |-> ARBITRUM, isActive |-> TRUE],
     [name |-> "sushiswap", chainId |-> ARBITRUM, isActive |-> TRUE],
     [name |-> "camelot", chainId |-> ARBITRUM, isActive |-> TRUE],
     [name |-> "uniswap_v3", chainId |-> POLYGON, isActive |-> TRUE],
     [name |-> "sushiswap", chainId |-> POLYGON, isActive |-> TRUE],
     [name |-> "quickswap", chainId |-> POLYGON, isActive |-> TRUE],
     [name |-> "uniswap_v3", chainId |-> BASE, isActive |-> TRUE],
     [name |-> "aerodrome", chainId |-> BASE, isActive |-> TRUE],
     [name |-> "baseswap", chainId |-> BASE, isActive |-> TRUE] >>

\* the promises monitorPrices pushes for the full venue list and the pairs
\* of the model, in the order of its two loops
FullMatrix ==
  LET active == SelectSeq(ALL_DEX_CONFIGS, LAMBDA dex : dex.isActive) IN
  [n \in 1..(Len(active) * Len(TOKEN_PAIRS)) |->
     [dexConfig |-> active[((n - 1) \div Len(TOKEN_PAIRS)) + 1],
      tokenPair |-> TOKEN_PAIRS[((n - 1) % Len(TOKEN_PAIRS)) + 1]]]

FullTaskIds == 1..Len(FullMatrix)

\* the fetches that have started and have not settled
inFlight(ts) == {t \in DOMAIN ts : ts[t].pc \in {"resolve", "read", "store"}}

\* monitorPrices over the full venue list: its loops call fetchPriceForDex
\* for every combination, and each call runs up to its first await
monitorPricesAll ==
  /\ phase = "running"
  /\ cycle = "idle"
  /\ cycle' = "running"
  /\ tasks' =
       [t \in FullTaskIds |->
          LET k == cacheKey(FullMatrix[t].dexConfig, FullMatrix[t].tokenPair)
              lastUpdate == IF mapHas(lastUpdateTime, k) THEN lastUpdateTime[k] ELSE 0
          IN  [pc |-> IF clock - lastUpdate < PRICE_UPDATE_INTERVAL
                      THEN "skipped" ELSE "resolve",
               now |-> clock,
               lastUpdate |-> lastUpdate]]
  /\ trace' = NoTrace
  /\ UNCHANGED <<connections, botVars, detVars, stopVars, clock, priceCache, lastUpdateTime>>

\* one fetch of the fan-out runs to its end: the default branch of the
\* switch for a venue without a case, the end of the try block or the catch
\* block otherwise (the cache is not followed here)
fetchSettles(t) ==
  /\ cycle = "running"
  /\ t \in DOMAIN tasks
  /\ tasks[t].pc = "resolve"
  /\ \E done \in BOOLEAN :
       tasks' = [tasks EXCEPT ![t].pc =
                   IF ~supported(FullMatrix[t].dexConfig) /\ done THEN "unsupported"
                   ELSE IF done THEN "stored" ELSE "failed"]
  /\ trace' = NoTrace
  /\ UNCHANGED <<connections, botVars, detVars, stopVars, clock, cycle, priceCache, lastUpdateTime>>

\* await Promise.allSettled(promises) returns
monitorPricesAllReturn ==
  /\ cycle = "running"
  /\ DOMAIN tasks = FullTaskIds
  /\ \A t \in FullTaskIds : settled(tasks[t])
  /\ cycle' = "idle"
  /\ trace' = NoTrace
  /\ UNCHANGED <<connections, botVars, detVars, stopVars, clock, tasks, priceCache, lastUpdateTime>>

FanOutNext ==
  \/ Boot
  \/ testChainConnections
  \/ monitorPricesAll
  \/ \E t \in FullTaskIds : fetchSettles(t)
  \/ monitorPricesAllReturn

FanOutSpec == Init /\ [][FanOutNext]_vars

(***************************************************************************)
(* DexMonitor: polling cycles while the health checks run                  *)
(***************************************************************************)
\* the reads of a fetch that fail, or find a pair with one unit of each
\* token
DegradedReads ==
  {rd \in QuoteReads :
     rd.readOk => /\ rd.pairAddress # Null
                  /\ rd.reserve0 = 1 /\ rd.reserve1 = 1
                  /\ rd.isToken0Base}

\* the endpoints of a network all answer at once, or all fail every
\* attempt
DegradedProbes ==
  {[i \in Endpoints |-> 0], [i \in Endpoints |-> PRETRY_RETRIES + 1]}

DegradedNext ==
  \/ Boot
  \/ testChainConnectionsWith(DegradedProbes)
  \/ startHealthChecks
  \/ performHealthCheckWith(DegradedProbes)
  \/ monitorPrices
  \/ \E t \in TaskIds : fetchResolveWith(t, DegradedProbes)
  \/ \E t \in TaskIds : fetchQuoteFrom(t, DegradedReads)
  \/ \E t \in TaskIds : fetchStore(t)
  \/ monitorPricesReturn

DegradedSpec == Init /\ [][DegradedNext]_vars

(***************************************************************************)
(* MevBot: the price timer and the callbacks it starts                     *)
(***************************************************************************)
\* the promises of the n-th callback followed: one per entry of Matrix
SlotIds(n) == {(n - 1) * Len(Matrix) + t : t \in TaskIds}
Callbacks == 1..MaxCallbacks
taskOf(i) == ((i - 1) % Len(Matrix)) + 1

\* the callbacks whose monitorPrices has started and has not returned
callbacksInFlight(ts) ==
  {n \in Callbacks : \E i \in SlotIds(n) \cap DOMAIN ts : ts[i].pc # "none"}

\* setInterval runs the async callback of startPriceMonitoring: the timer
\* does not wait for the promise of an earlier callback; the callback runs
\* monitorPrices up to the first await of each fetch
timerFires(n) ==
  /\ phase = "running"
  /\ n \notin callbacksInFlight(tasks)
  /\ \A m \in Callbacks : m < n => m \in callbacksInFlight(tasks)
  /\ tasks' = [i \in (DOMAIN tasks) \cup SlotIds(n) |->
                 IF i \in SlotIds(n)
                 THEN fetchPriceForDex(taskOf(i), clock, lastUpdateTime)
                 ELSE tasks[i]]
  /\ cycle' = "running"
  /\ trace' = NoTrace
  /\ UNCHANGED <<connections, botVars, detVars, stopVars, clock, priceCache, lastUpdateTime>>

\* one fetch of a callback runs to its end: it stores its quote, returns
\* at the default branch of the switch, or fails
fetchSettlesOf(i) ==
  /\ i \in DOMAIN tasks
  /\ tasks[i].pc = "resolve"
  /\ \E done \in BOOLEAN :
       tasks' = [tasks EXCEPT ![i].pc =
                   IF ~done THEN "failed"
                   ELSE IF supported(Matrix[taskOf(i)].dexConfig) THEN "stored"
                   ELSE "unsupported"]
  /\ trace' = NoTrace
  /\ UNCHANGED <<connections, botVars, detVars, stopVars, clock, cycle, priceCache, lastUpdateTime>>

\* Promise.allSettled of a callback returns, and the callback with it
callbackEnds(n) ==
  /\ n \in callbacksInFlight(tasks)
  /\ \A i \in SlotIds(n) : settled(tasks[i])
  /\ tasks' = [i \in DOMAIN tasks |-> IF i \in SlotIds(n) THEN NoTask ELSE tasks[i]]
  /\ cycle' = IF callbacksInFlight(tasks) = {n} THEN "idle" ELSE "running"
  /\ trace' = NoTrace
  /\ UNCHANGED <<connections, botVars, detVars, stopVars, clock, priceCache, lastUpdateTime>>

OverlapNext ==
  \/ Boot
  \/ testChainConnections
  \/ \E n \in Callbacks : timerFires(n)
  \/ \E i \in 1..(MaxCallbacks * Len(Matrix)) : fetchSettlesOf(i)
  \/ \E n \in Callbacks : callbackEnds(n)

OverlapSpec == Init /\ [][OverlapNext]_vars

(***************************************************************************)
(* DexMonitor: fetches of overlapping callbacks write the same key         *)
(***************************************************************************)
\* each callback of the price timer is followed until its fetches have
\* settled; the connections come out of start-up in one state
\* a quote stamped with the time its fetch started
timestampAtStart(task, time) == task.now

\* timestamp: new Date() in the return statement of the fetcher, evaluated
\* after the last read of the fetch; no await lies between it and the cache
\* writes of fetchPriceForDex
timestampOf(task, time) == time

\* the fetch in slot i runs from its reads to its cache writes, returns at
\* the default branch of the switch, or fails
fetchWrites(i) ==
  /\ i \in DOMAIN tasks
  /\ tasks[i].pc = "resolve"
  /\ \E rd \in DegradedReads :
       LET dexConfig == Matrix[taskOf(i)].dexConfig
           tokenPair == Matrix[taskOf(i)].tokenPair
           q == fetchUniswapV2Price(dexConfig, tokenPair, rd,
                                    timestampOf(tasks[i], clock))
       IN
       IF ~rd.readOk
       THEN /\ tasks' = [tasks EXCEPT ![i].pc = "failed"]
            /\ UNCHANGED <<priceCache, lastUpdateTime>>
       ELSE IF ~supported(dexConfig)
       THEN /\ tasks' = [tasks EXCEPT ![i].pc = "unsupported"]
            /\ UNCHANGED <<priceCache, lastUpdateTime>>
       ELSE IF ~q.ok
       THEN /\ tasks' = [tasks EXCEPT ![i].pc = "failed"]
            /\ UNCHANGED <<priceCache, lastUpdateTime>>
       ELSE /\ priceCache' = mapSet(priceCache, keyOf(taskOf(i)), q.priceData)
            /\ lastUpdateTime' = mapSet(lastUpdateTime, keyOf(taskOf(i)), tasks[i].now)
            /\ tasks' = [tasks EXCEPT ![i].pc = "stored"]
  /\ trace' = NoTrace
  /\ UNCHANGED <<connections, botVars, detVars, stopVars, clock, cycle>>

\* one polling period passes, whatever is in flight
timePasses ==
  /\ phase = "running"
  /\ clock < MaxClock
  /\ clock' = clock + PRICE_UPDATE_INTERVAL
  /\ trace' = NoTrace
  /\ UNCHANGED <<connections, botVars, detVars, stopVars, cycle, tasks, priceCache,
                 lastUpdateTime>>

RaceNext ==
  \/ Boot
  \/ testChainConnectionsWith(DegradedProbes)
  \/ \E n \in Callbacks : timerFires(n)
  \/ timePasses
  \/ \E i \in 1..(MaxCallbacks * Len(Matrix)) : fetchWrites(i)

RaceSpec == Init /\ [][RaceNext]_vars

(***************************************************************************)
(* MevBot: stop() while a polling cycle is in flight                       *)
(***************************************************************************)
\* a shutdown signal arrives: stop() clears the two intervals and goes on
\* to cleanupServices; it waits for no callback that is in flight
stop ==
  /\ phase = "running"
  /\ phase' = "stopping"
  /\ trace' = NoTrace
  /\ UNCHANGED <<connections, exitCause, startIdx, healthIdx, pollVars, detVars, stopVars>>

\* one iteration of ChainManager.close: await connection.provider.destroy()
\* for the next chain of the map; the connection record keeps the provider
close ==
  /\ phase = "stopping"
  /\ \E k \in 1..Len(Chains) :
       /\ Chains[k] \notin closed
       /\ \A j \in 1..(k - 1) : Chains[j] \in closed
       /\ closed' = closed \cup {Chains[k]}
  /\ trace' = NoTrace
  /\ UNCHANGED <<connections, botVars, pollVars, detVars, lifecycle>>

\* close and stop return, and the signal handler calls process.exit(0)
exit ==
  /\ phase = "stopping"
  /\ closed = ChainSet
  /\ phase' = "exited"
  /\ exitCause' = "signal"
  /\ trace' = NoTrace
  /\ UNCHANGED <<connections, startIdx, healthIdx, pollVars, detVars, stopVars>>

\* the reads of a fetch through a provider: a destroyed provider rejects
\* every request
ReadsThrough(c) ==
  IF c \in closed THEN {rd \in QuoteReads : ~rd.readOk} ELSE DegradedReads

ShutdownNext ==
  \/ Boot
  \/ testChainConnections
  \/ monitorPrices
  \/ phase # "exited" /\ \E t \in TaskIds : fetchResolve(t)
  \/ phase # "exited" /\
       \E t \in TaskIds : fetchQuoteFrom(t, ReadsThrough(Matrix[t].dexConfig.chainId))
  \/ phase # "exited" /\ \E t \in TaskIds : fetchStore(t)
  \/ phase # "exited" /\ monitorPricesReturn
  \/ stop
  \/ close
  \/ exit

ShutdownSpec == Init /\ [][ShutdownNext]_vars

(***************************************************************************)
(* ChainManager: getProvider calls of one cycle run at the same time       *)
(***************************************************************************)
\* the first endpoint from index i on that the loop of establishConnection
\* does not skip, NumEndpoints when there is none
RECURSIVE nextProbed(_, _)
nextProbed(conn, i) ==
  IF i >= NumEndpoints THEN NumEndpoints
  ELSE IF skipped(conn.connections[i]) THEN nextProbed(conn, i + 1)
  ELSE i

\* establishConnection from the head of its loop at index i up to its next
\* await: the first attempt of pRetry on the next endpoint that is not
\* skipped, or "All RPC connections failed"
loopHead(t, conn, i) ==
  LET j == nextProbed(conn, i) IN
  IF j = NumEndpoints
  THEN [conn |-> allFailed(conn),
        task |-> [pc |-> "failed", now |-> tasks[t].now,
                  lastUpdate |-> tasks[t].lastUpdate, established |-> TRUE]]
  ELSE [conn |-> conn,
        task |-> [pc |-> "probe", now |-> tasks[t].now,
                  lastUpdate |-> tasks[t].lastUpdate, established |-> TRUE,
                  i |-> j, attempt |-> 1]]

\* the getProvider call of fetch t up to its first await: the cached
\* provider, or the start of establishConnection
getProviderStarts(t) ==
  /\ phase = "running"
  /\ cycle = "running"
  /\ tasks[t].pc = "resolve"
  /\ LET c == Matrix[t].dexConfig.chainId
         conn == connections[c]
     IN
     IF conn.provider # Null /\ conn.isHealthy
     THEN /\ tasks' = [tasks EXCEPT ![t] =
                         [pc |-> "read", now |-> @.now, lastUpdate |-> @.lastUpdate,
                          established |-> FALSE]]
          /\ UNCHANGED connections
     ELSE LET r == loopHead(t, conn, 0) IN
          /\ connections' = [connections EXCEPT ![c] = r.conn]
          /\ tasks' = [tasks EXCEPT ![t] = r.task]
  /\ trace' = NoTrace
  /\ UNCHANGED <<botVars, detVars, stopVars, clock, cycle, priceCache, lastUpdateTime>>

\* provider.getBlockNumber() of the attempt fetch t waits for answers or
\* fails; the code that follows runs up to the next await of the call
attemptSettles(t) ==
  /\ phase = "running"
  /\ cycle = "running"
  /\ tasks[t].pc = "probe"
  /\ LET c == Matrix[t].dexConfig.chainId
         conn == connections[c]
         i == tasks[t].i
     IN
     \E answered \in BOOLEAN :
       IF answered
       THEN /\ connections' =
                 [connections EXCEPT ![c] = connected(attemptSucceeded(conn, i), i)]
            /\ tasks' = [tasks EXCEPT ![t] =
                           [pc |-> "read", now |-> @.now, lastUpdate |-> @.lastUpdate,
                            established |-> TRUE]]
       ELSE IF tasks[t].attempt <= PRETRY_RETRIES
       THEN /\ connections' = [connections EXCEPT ![c] = onFailedAttempt(conn, i)]
            /\ tasks' = [tasks EXCEPT ![t].attempt = @ + 1]
       ELSE LET r == loopHead(t, endpointFailed(onFailedAttempt(conn, i), i), i + 1) IN
            /\ connections' = [connections EXCEPT ![c] = r.conn]
            /\ tasks' = [tasks EXCEPT ![t] = r.task]
  /\ trace' = NoTrace
  /\ UNCHANGED <<botVars, detVars, stopVars, clock, cycle, priceCache, lastUpdateTime>>

\* a health check between two polling cycles
healthCheckBetweenCycles ==
  /\ cycle = "idle"
  /\ performHealthCheck

ConcurrentNext ==
  \/ Boot
  \/ testChainConnections
  \/ startHealthChecks
  \/ healthCheckBetweenCycles
  \/ monitorPrices
  \/ \E t \in TaskIds : getProviderStarts(t)
  \/ \E t \in TaskIds : attemptSettles(t)

ConcurrentSpec == Init /\ [][ConcurrentNext]_vars

(***************************************************************************)
(* DexMonitor: the catch block of a fetch                                  *)
(***************************************************************************)
\* what makes the try block of fetchPriceForDex throw
FetchErrors == {"All RPC connections failed", "Pair address not found", "read failed"}

\* the try block of a fetch throws: getProvider, a read or the quote source
\* failed; control is in the catch block, which has logged the error
tryThrows(t) ==
  /\ cycle = "running"
  /\ tasks[t].pc = "resolve"
  /\ \E message \in FetchErrors :
       tasks' = [tasks EXCEPT ![t] =
                   [pc |-> "catch", now |-> @.now, lastUpdate |-> @.lastUpdate,
                    error |-> message, metrics |-> <<>>]]
  /\ trace' = NoTrace
  /\ UNCHANGED <<connections, botVars, detVars, stopVars, clock, cycle, priceCache,
                 lastUpdateTime>>

\* the try block of a fetch runs to its end
tryReturns(t) ==
  /\ cycle = "running"
  /\ tasks[t].pc = "resolve"
  /\ tasks' = [tasks EXCEPT ![t].pc =
                  IF supported(Matrix[t].dexConfig) THEN "stored" ELSE "unsupported"]
  /\ trace' = NoTrace
  /\ UNCHANGED <<connections, botVars, detVars, stopVars, clock, cycle, priceCache,
                 lastUpdateTime>>

\* storePerformanceMetric: the metric is pushed to performanceMetrics
storePerformanceMetric(metrics, operation, success, chainId, dexName, errorMessage) ==
  Append(metrics, [operation |-> operation, success |-> success, chainId |-> chainId,
                   dexName |-> dexName, errorMessage |-> errorMessage])

\* the rest of the catch block: await storePerformanceMetric(...,
\* Date.now() - startTime, false, ...).  startTime is a const of the try
\* block.  Where the emitted code keeps const (ES2015 and later) the name is
\* not defined in the catch block: the argument throws a ReferenceError and
\* the call is not made.  Where const is emitted as a function-scoped var
\* (ES5) the call is made.  Either way the promise of the fetch settles.
catchBlock(t) ==
  /\ cycle = "running"
  /\ tasks[t].pc = "catch"
  /\ \E startTimeInScope \in BOOLEAN :
       tasks' = [tasks EXCEPT
                   ![t].pc = "failed",
                   ![t].metrics =
                     IF startTimeInScope
                     THEN storePerformanceMetric(@, <<"price_fetch_", Matrix[t].dexConfig.name>>,
                            FALSE, Matrix[t].dexConfig.chainId, Matrix[t].dexConfig.name,
                            tasks[t].error)
                     ELSE @]
  /\ trace' = NoTrace
  /\ UNCHANGED <<connections, botVars, detVars, stopVars, clock, cycle, priceCache,
                 lastUpdateTime>>

CatchNext ==
  \/ Boot
  \/ testChainConnections
  \/ monitorPrices
  \/ \E t \in TaskIds : tryThrows(t)
  \/ \E t \in TaskIds : tryReturns(t)
  \/ \E t \in TaskIds : catchBlock(t)
  \/ monitorPricesReturn

CatchSpec == Init /\ [][CatchNext]_vars

(***************************************************************************)
(* PriceCalculator                                                         *)
(***************************************************************************)
\* JavaScript numbers of the detector, kept as fractions with a positive
\* denominator (the quotes of DetectorReads are finite); rounding of the
\* floating-point operations is not followed
number(n) == divide(n, 1)
minus(x, y) == [num |-> x.num * y.den - y.num * x.den, den |-> x.den * y.den]
times(x, y) == [num |-> x.num * y.num, den |-> x.den * y.den]
over(x, y) ==
  IF y.num < 0 THEN [num |-> (0 - x.num) * y.den, den |-> x.den * (0 - y.num)]
  ELSE [num |-> x.num * y.den, den |-> x.den * y.num]
less(x, y) == x.num * y.den < y.num * x.den
\* x / 0: NaN for x = 0, an infinity otherwise; every comparison with NaN
\* is false, so x >= y is not the negation of x < y
isNaN(x) == x.num = 0 /\ x.den = 0
atLeast(x, y) == ~isNaN(x) /\ ~isNaN(y) /\ ~less(x, y)
abs(x) == [num |-> IF x.num < 0 THEN 0 - x.num ELSE x.num, den |-> x.den]
min(x, y) == IF less(y, x) THEN y ELSE x

\* what estimateGasCost answers per chain during one run of the detector:
\* the cost in USD computed from the fee read, 0 when getProvider or the
\* read fails
GasCosts == {0, 25, 60}
GasInputs == [ChainSet -> GasCosts]

\* the fee reads of a run in which getProvider or getFeeData can reject
\* (Null) for a chain
FeeReads == [ChainSet -> {Null, 25}]

\* estimateGasCost without its catch block: the rejection goes to the caller
estimateGasCostNoCatch(chainId, fee) ==
  IF fee[chainId] = Null THEN [threw |-> TRUE, cost |-> 0]
  ELSE [threw |-> FALSE, cost |-> fee[chainId]]

\* estimateGasCost: the whole body is in a try block whose catch block logs
\* and returns 0
estimateGasCost(chainId, fee) ==
  IF fee[chainId] = Null THEN [threw |-> FALSE, cost |-> 0]
  ELSE [threw |-> FALSE, cost |-> fee[chainId]]

\* the percentage of lines 143-144
priceDifferencePercentOf(sourcePrice, targetPrice) ==
  times(over(abs(minus(sourcePrice.price, targetPrice.price)),
             min(sourcePrice.price, targetPrice.price)),
        number(100))

\* the test of lines 147-149 with every pair let through
belowThresholdNever(priceDifferencePercent) == FALSE

\* if (priceDifferencePercent < minProfitThreshold) return null
belowThreshold(priceDifferencePercent) ==
  less(priceDifferencePercent, number(MIN_PROFIT_THRESHOLD))

\* the test of lines 173-175 without its third conjunct
isProfitableNoGasCap(netProfit, profitMargin, totalGasCost) ==
  /\ positive(netProfit)
  /\ atLeast(profitMargin, number(MIN_PROFIT_THRESHOLD))

\* netProfit > 0 && profitMargin >= minProfitThreshold &&
\* totalGasCost <= maxGasCost
isProfitable(netProfit, profitMargin, totalGasCost) ==
  /\ positive(netProfit)
  /\ atLeast(profitMargin, number(MIN_PROFIT_THRESHOLD))
  /\ ~less(number(MAX_GAS_COST), totalGasCost)

\* a trade size that falls back to one unit when the quote has no liquidity
potentialProfitUnitSize(buyPrice, sellPrice, liquidity) ==
  times(minus(sellPrice, buyPrice), number(IF liquidity = 0 THEN 1 ELSE liquidity))

\* (sellPrice - buyPrice) * sourcePrice.liquidity
potentialProfitOf(buyPrice, sellPrice, liquidity) ==
  times(minus(sellPrice, buyPrice), number(liquidity))

\* calculateOpportunity: the opportunity of two quotes, [ok |-> FALSE] for
\* null; the id and the timestamp of the record are left out; estimated is
\* the list of the chains estimateGasCost was called for
calculateOpportunity(sourcePrice, targetPrice, fee) ==
  LET priceDifference == abs(minus(sourcePrice.price, targetPrice.price))
      priceDifferencePercent == priceDifferencePercentOf(sourcePrice, targetPrice)
  IN
  IF belowThreshold(priceDifferencePercent)
  THEN [ok |-> FALSE, estimated |-> <<>>]
  ELSE
    LET isSourceCheaper == less(sourcePrice.price, targetPrice.price)
        buyPrice == IF isSourceCheaper THEN sourcePrice.price ELSE targetPrice.price
        sellPrice == IF isSourceCheaper THEN targetPrice.price ELSE sourcePrice.price
        buyChain == IF isSourceCheaper THEN sourcePrice.chainId ELSE targetPrice.chainId
        sellChain == IF isSourceCheaper THEN targetPrice.chainId ELSE sourcePrice.chainId
        buyDex == IF isSourceCheaper THEN sourcePrice.dexName ELSE targetPrice.dexName
        sellDex == IF isSourceCheaper THEN targetPrice.dexName ELSE sourcePrice.dexName
        potentialProfit == potentialProfitOf(buyPrice, sellPrice, sourcePrice.liquidity)
        buyGasCost == estimateGasCost(buyChain, fee)
        sellGasCost == estimateGasCost(sellChain, fee)
        totalGasCost == number(buyGasCost.cost + sellGasCost.cost)
        netProfit == minus(potentialProfit, totalGasCost)
        profitMargin == times(over(netProfit, potentialProfit), number(100))
    IN
    \* an error of the try block is caught at lines 206-209: null
    IF buyGasCost.threw THEN [ok |-> FALSE, estimated |-> <<buyChain>>]
    ELSE IF sellGasCost.threw THEN [ok |-> FALSE, estimated |-> <<buyChain, sellChain>>]
    ELSE
        [ok |-> TRUE,
         estimated |-> <<buyChain, sellChain>>,
         opportunity |->
           [tokenPair |-> sourcePrice.tokenPair,
            baseToken |-> sourcePrice.baseToken,
            quoteToken |-> sourcePrice.quoteToken,
            sourceChain |-> buyChain,
            sourceDex |-> buyDex,
            targetChain |-> sellChain,
            targetDex |-> sellDex,
            sourcePrice |-> buyPrice,
            targetPrice |-> sellPrice,
            priceDifference |-> priceDifference,
            priceDifferencePercent |-> priceDifferencePercent,
            potentialProfit |-> potentialProfit,
            gasCost |-> totalGasCost,
            netProfit |-> netProfit,
            profitMargin |-> profitMargin,
            isProfitable |-> isProfitable(netProfit, profitMargin, totalGasCost),
            minProfitThreshold |-> MIN_PROFIT_THRESHOLD]]

\* the test of line 116 with every opportunity let through
pushedAndStoredAlways(opportunity) == TRUE

\* if (opportunity && opportunity.isProfitable): push, log and store
pushedAndStored(opportunity) == opportunity.isProfitable

\* the locals of one run of the detector: the calls of calculateOpportunity
\* with their results, the opportunities computed, the ones pushed to the
\* result, the ones passed to storeArbitrageOpportunity, the ones passed to
\* an alert channel (storePriceAlert or a webhook of config.alerts), and
\* whether a store call threw
NoRun ==
  [calls |-> <<>>, computed |-> <<>>, opportunities |-> <<>>, stored |-> <<>>,
   alerted |-> <<>>, threw |-> FALSE]

\* the two loops of calculatePairOpportunities from (i, j) on, 1-based;
\* failAt is the number of the store call that fails (0: none does)
RECURSIVE comparePrices(_, _, _, _, _, _)
comparePrices(recentPrices, i, j, fee, failAt, run) ==
  IF run.threw \/ i > Len(recentPrices) THEN run
  ELSE IF j > Len(recentPrices)
  THEN comparePrices(recentPrices, i + 1, i + 2, fee, failAt, run)
  ELSE
    LET sourcePrice == recentPrices[i]
        targetPrice == recentPrices[j]
        r == calculateOpportunity(sourcePrice, targetPrice, fee)
        calls == Append(run.calls, [sourcePrice |-> sourcePrice,
                                    targetPrice |-> targetPrice, result |-> r])
    IN
    IF sourcePrice.chainId = targetPrice.chainId
       /\ sourcePrice.dexName = targetPrice.dexName
    THEN comparePrices(recentPrices, i, j + 1, fee, failAt, run)
    ELSE IF ~r.ok
    THEN comparePrices(recentPrices, i, j + 1, fee, failAt,
           [run EXCEPT !.calls = calls])
    ELSE IF pushedAndStored(r.opportunity)
    THEN comparePrices(recentPrices, i, j + 1, fee, failAt,
           [calls |-> calls,
            computed |-> Append(run.computed, r.opportunity),
            opportunities |-> Append(run.opportunities, r.opportunity),
            stored |-> Append(run.stored, r.opportunity),
            \* lines 116-124 push, log and store; they make no alert call
            alerted |-> run.alerted,
            threw |-> Len(run.stored) + 1 = failAt])
    ELSE comparePrices(recentPrices, i, j + 1, fee, failAt,
           [run EXCEPT !.calls = calls,
                       !.computed = Append(run.computed, r.opportunity)])

\* a filter that lets every price through
recentOfAll(prices, now) == prices

\* the filter of lines 90-92
recentOf(prices, now) ==
  SelectSeq(prices, LAMBDA price : now - price.timestamp < MAX_PRICE_AGE)

calculatePairOpportunities(prices, now, fee, failAt, run) ==
  LET recentPrices == recentOf(prices, now) IN
  IF Len(recentPrices) < 2 THEN run
  ELSE comparePrices(recentPrices, 1, 2, fee, failAt, run)

\* groupPricesByPair: the pairs in the order of their first quote
RECURSIVE pairsOf(_)
pairsOf(priceData) ==
  IF priceData = <<>> THEN <<>>
  ELSE LET key == priceData[1].tokenPair IN
       <<key>> \o pairsOf(SelectSeq(Tail(priceData), LAMBDA price : price.tokenPair # key))

groupPricesByPair(priceData) ==
  LET keys == pairsOf(priceData) IN
  [n \in 1..Len(keys) |->
     SelectSeq(priceData, LAMBDA price : price.tokenPair = keys[n])]

\* the loop of calculateArbitrageOpportunities over the groups from n on;
\* an error of a pair ends the run
RECURSIVE eachPair(_, _, _, _, _, _)
eachPair(pricesByPair, n, now, fee, failAt, run) ==
  IF run.threw \/ n > Len(pricesByPair) THEN run
  ELSE eachPair(pricesByPair, n + 1, now, fee, failAt,
         calculatePairOpportunities(pricesByPair[n], now, fee, failAt, run))

calculateArbitrageOpportunities(priceData, now, fee, failAt) ==
  eachPair(groupPricesByPair(priceData), 1, now, fee, failAt, NoRun)

(***************************************************************************)
(* MevBot: the detector runs on what the price cache holds                 *)
(***************************************************************************)
\* the venues of the configured list on the chains of the model whose quote
\* is computed from two reserves, with the pairs of the model
DetectorMatrix ==
  LET venues == SelectSeq(ALL_DEX_CONFIGS, LAMBDA dex :
                   /\ dex.isActive
                   /\ dex.chainId \in ChainSet
                   /\ dex.name \in {"uniswap_v2", "sushiswap"})
  IN  [n \in 1..(Len(venues) * Len(TOKEN_PAIRS)) |->
         [dexConfig |-> venues[((n - 1) \div Len(TOKEN_PAIRS)) + 1],
          tokenPair |-> TOKEN_PAIRS[((n - 1) % Len(TOKEN_PAIRS)) + 1]]]

DetectorTaskIds == 1..Len(DetectorMatrix)

\* the reads of a fetch that finds a pair with one unit of the base token
\* and 50, 51 or 53 units of the quote token
DetectorReads ==
  [readOk : {TRUE}, pairAddress : {1}, reserve0 : {1}, reserve1 : {50, 51, 53},
   isToken0Base : {TRUE}]

\* the last time the detector specification follows
MaxAgeClock == StartTime + MaxTicks * MAX_PRICE_AGE

\* the store calls one run can make
StoreCalls == 0..((Len(DetectorMatrix) * (Len(DetectorMatrix) - 1)) \div 2)

\* Array.from(priceCache.values()): the values in the order of insertion of
\* their keys; the cache of the model does not keep that order, so the list
\* is given by any order of its keys
KeyOrders(cache) ==
  LET n == Cardinality(DOMAIN cache) IN
  {order \in [1..n -> DOMAIN cache] :
     \A a, b \in 1..n : order[a] = order[b] => a = b}

getAllCachedPrices(cache, order) == [n \in DOMAIN order |-> cache[order[n]]]

\* one fetch of a polling cycle that passes the rate-limit test and whose
\* reads all succeed: the cache writes of fetchPriceForDex (125-128)
fetchAndCacheFrom(t, reads) ==
  /\ phase = "running"
  /\ detection = NoDetection
  /\ LET dexConfig == DetectorMatrix[t].dexConfig
         tokenPair == DetectorMatrix[t].tokenPair
         k == cacheKey(dexConfig, tokenPair)
         lastUpdate == IF mapHas(lastUpdateTime, k) THEN lastUpdateTime[k] ELSE 0
     IN
     /\ ~(clock - lastUpdate < PRICE_UPDATE_INTERVAL)
     /\ \E rd \in reads :
          LET r == fetchUniswapV2Price(dexConfig, tokenPair, rd, clock) IN
          /\ r.ok
          /\ priceCache' = mapSet(priceCache, k, r.priceData)
          /\ lastUpdateTime' = mapSet(lastUpdateTime, k, clock)
  /\ UNCHANGED <<connections, botVars, trace, detVars, stopVars, clock, cycle, tasks>>

fetchAndCache(t) == fetchAndCacheFrom(t, DetectorReads)

\* MAX_PRICE_AGE passes with no successful fetch
elapse ==
  /\ phase = "running"
  /\ detection = NoDetection
  /\ clock < MaxAgeClock
  /\ clock' = clock + MAX_PRICE_AGE
  /\ UNCHANGED <<connections, botVars, trace, detVars, stopVars, cycle, tasks, priceCache,
                 lastUpdateTime>>

\* the tail of the timer callback of startPriceMonitoring: the cached
\* prices are read and, when there are any, handed to the detector; an error
\* of the detector is caught and logged
detectWith(fees) ==
  /\ phase = "running"
  /\ detection = NoDetection
  /\ \E order \in KeyOrders(priceCache), fee \in fees, failAt \in StoreCalls :
       LET allPrices == getAllCachedPrices(priceCache, order)
           run == calculateArbitrageOpportunities(allPrices, clock, fee, failAt)
       IN
       /\ Len(allPrices) > 0
       /\ detection' = [op |-> "detect", allPrices |-> allPrices, now |-> clock,
                        fee |-> fee, calls |-> run.calls, computed |-> run.computed,
                        opportunities |-> run.opportunities,
                        stored |-> run.stored, alerted |-> run.alerted,
                        threw |-> run.threw]
  /\ UNCHANGED <<connections, botVars, trace, pollVars, stopVars>>

detect == detectWith(GasInputs)

\* the timer callback returns and the locals of its run are gone
callbackReturns ==
  /\ detection # NoDetection
  /\ detection' = NoDetection
  /\ UNCHANGED <<connections, botVars, trace, pollVars, stopVars>>

DetectorNext ==
  \/ Boot
  \/ testChainConnections
  \/ \E t \in DetectorTaskIds : fetchAndCache(t)
  \/ elapse
  \/ detect
  \/ callbackReturns

DetectorSpec == Init /\ [][DetectorNext]_vars

(***************************************************************************)
(* MevBot: the detector runs on quotes of pairs that can be empty          *)
(***************************************************************************)
\* the reads of a fetch that finds a pair with reserves (0, 0), (0, 1),
\* (1, 50) or (1, 53): the prices 0 / 0, 1 / 0, 50 and 53
EmptyPairReads ==
  [readOk : {TRUE}, pairAddress : {1}, reserve0 : {0}, reserve1 : {0, 1},
   isToken0Base : {TRUE}]
  \cup
  [readOk : {TRUE}, pairAddress : {1}, reserve0 : {1}, reserve1 : {50, 53},
   isToken0Base : {TRUE}]

EmptyPairNext ==
  \/ Boot
  \/ testChainConnections
  \/ \E t \in DetectorTaskIds : fetchAndCacheFrom(t, EmptyPairReads)
  \/ detect
  \/ callbackReturns

EmptyPairSpec == Init /\ [][EmptyPairNext]_vars

(***************************************************************************)
(* MevBot: the detector runs on quotes of pools that can be empty          *)
(***************************************************************************)
\* the concentrated-liquidity venues of the configured list on the chains
\* of the model, with the pairs of the model
PoolMatrix ==
  LET venues == SelectSeq(ALL_DEX_CONFIGS, LAMBDA dex :
                   /\ dex.isActive
                   /\ dex.chainId \in ChainSet
                   /\ dex.name = "uniswap_v3")
  IN  [n \in 1..(Len(venues) * Len(TOKEN_PAIRS)) |->
         [dexConfig |-> venues[((n - 1) \div Len(TOKEN_PAIRS)) + 1],
          tokenPair |-> TOKEN_PAIRS[((n - 1) % Len(TOKEN_PAIRS)) + 1]]]

PoolTaskIds == 1..Len(PoolMatrix)

\* the reads of a fetch that finds a pool priced 49 or 64 that holds no
\* liquidity or one unit
PoolReads ==
  [readOk : {TRUE}, poolAddress : {1}, sqrtPrice : {7, 8}, liquidity : {0, 1}]

\* one fetch of a polling cycle on a concentrated-liquidity venue that
\* passes the rate-limit test and whose reads all succeed: the cache writes
\* of fetchPriceForDex (125-128)
fetchAndCachePool(t) ==
  /\ phase = "running"
  /\ detection = NoDetection
  /\ LET dexConfig == PoolMatrix[t].dexConfig
         tokenPair == PoolMatrix[t].tokenPair
         k == cacheKey(dexConfig, tokenPair)
         lastUpdate == IF mapHas(lastUpdateTime, k) THEN lastUpdateTime[k] ELSE 0
     IN
     /\ ~(clock - lastUpdate < PRICE_UPDATE_INTERVAL)
     /\ \E rd \in PoolReads :
          LET r == fetchUniswapV3Price(dexConfig, tokenPair, rd, clock) IN
          /\ r.ok
          /\ priceCache' = mapSet(priceCache, k, r.priceData)
          /\ lastUpdateTime' = mapSet(lastUpdateTime, k, clock)
  /\ UNCHANGED <<connections, botVars, trace, detVars, stopVars, clock, cycle, tasks>>

PoolNext ==
  \/ Boot
  \/ testChainConnections
  \/ \E t \in PoolTaskIds : fetchAndCachePool(t)
  \/ elapse
  \/ detect
  \/ callbackReturns

PoolSpec == Init /\ [][PoolNext]_vars

(***************************************************************************)
(* PriceCalculator: the detector runs while fee reads can fail             *)
(***************************************************************************)
\* the ages (Date.now() - opportunity.timestamp.getTime()) at which an
\* opportunity is validated
Ages == {0, MAX_PRICE_AGE, MAX_PRICE_AGE + 1}

\* the test of line 269 with every age let through
tooOldNever(opportunityAge) == FALSE

\* if (opportunityAge > maxAge) return false
tooOld(opportunityAge) == opportunityAge > MAX_PRICE_AGE

\* validateOpportunity: the value returned; an error of the try block is
\* caught at lines 295-301 and gives false
validateOpportunity(opportunity, opportunityAge, fee) ==
  IF tooOld(opportunityAge) THEN FALSE
  ELSE
    LET source == estimateGasCost(opportunity.sourceChain, fee)
        target == estimateGasCost(opportunity.targetChain, fee)
        currentGasCost == number(source.cost + target.cost)
        currentNetProfit == minus(opportunity.potentialProfit, currentGasCost)
        currentProfitMargin ==
          times(over(currentNetProfit, opportunity.potentialProfit), number(100))
    IN
    IF source.threw \/ target.threw THEN FALSE
    ELSE /\ positive(currentNetProfit)
         /\ atLeast(currentProfitMargin, number(MIN_PROFIT_THRESHOLD))
         /\ ~less(number(MAX_GAS_COST), currentGasCost)

\* a consumer of a run validates one of the opportunities the run computed,
\* some time later and with the fee reads of that time; the record keeps the
\* opportunity as it was passed and as it is after the call, which only
\* reads it
validate ==
  /\ phase = "running"
  /\ detection.op = "detect"
  /\ \E n \in DOMAIN detection.computed, opportunityAge \in Ages, fee \in FeeReads :
       detection' = [op |-> "validate", opportunity |-> detection.computed[n],
                     age |-> opportunityAge, fee |-> fee,
                     result |-> validateOpportunity(detection.computed[n],
                                                    opportunityAge, fee),
                     after |-> detection.computed[n]]
  /\ UNCHANGED <<connections, botVars, trace, pollVars, stopVars>>

EstimatorNext ==
  \/ Boot
  \/ testChainConnections
  \/ \E t \in DetectorTaskIds : fetchAndCache(t)
  \/ elapse
  \/ detectWith(FeeReads)
  \/ validate
  \/ callbackReturns

EstimatorSpec == Init /\ [][EstimatorNext]_vars

(***************************************************************************)
(* Recovery: the health-check timer keeps firing while the bot runs, and   *)
(* from some point on every probe and every read it makes is answered      *)
(***************************************************************************)
performHealthCheckReachable ==
  /\ phase = "running"
  /\ healthIdx >= 1
  /\ LET c == Chains[healthIdx] IN
     LET r == updateBlockInfo(connections[c], [i \in Endpoints |-> 0], TRUE, 1) IN
       /\ connections' = [connections EXCEPT ![c] = r.conn]
       /\ trace' = Traced("updateBlockInfo", c, r)
  /\ healthIdx' = IF healthIdx = Len(Chains) THEN 0 ELSE healthIdx + 1
  /\ UNCHANGED <<phase, exitCause, startIdx, pollVars, detVars, stopVars>>

FairSpec ==
  Spec /\ WF_vars(startHealthChecks) /\ WF_vars(performHealthCheckReachable)

(***************************************************************************)
(* Properties of the connection manager                                    *)
(***************************************************************************)
\* the endpoints step 2 of resolve may probe, read off the fields
eligible(conn) ==
  {i \in Endpoints :
     conn.connections[i].isActive
     /\ conn.connections[i].errorCount < conn.connections[i].maxRetries}

cachedHealthy(conn) == conn.provider # Null /\ conn.isHealthy

Last(seq) == seq[Len(seq)]

\* C1: with a cached provider and a healthy connection, getProvider returns
\* the cached provider, probes no endpoint and leaves the connection and its
\* endpoints as they were, whatever the endpoints would answer; so a second
\* resolve right after a successful one does no I/O.
C1_IdempotentResolve ==
  \A c \in ChainSet : \A fails \in AllProbes :
    cachedHealthy(connections[c]) =>
      LET r == getProvider(connections[c], fails) IN
      /\ r.ok
      /\ r.provider = connections[c].provider
      /\ r.probed = <<>>
      /\ ~r.established
      /\ r.conn = connections[c]

C1_Witness ==
  /\ trace.op = "getProvider"
  /\ trace.ok
  /\ ~trace.established
  /\ trace.probed = <<>>
  /\ cachedHealthy(connections[trace.chainId])

\* C2: when resolve has to probe, the probes of all eligible endpoints but
\* the last fail and the probe of the last one succeeds, resolve returns the
\* last one's provider, the connection is healthy with currentConnectionIndex
\* at that endpoint, and the error counter of each endpoint that failed is
\* strictly greater than before the call.
C2_Failover ==
  \A c \in ChainSet : \A fails \in AllProbes :
    LET conn == connections[c]
        E == eligible(conn)
        r == getProvider(conn, fails)
    IN  (/\ ~cachedHealthy(conn)
         /\ E # {}
         /\ \A i \in E : (fails[i] > PRETRY_RETRIES) <=> (\E j \in E : j > i))
        =>
        LET n == CHOOSE i \in E : \A j \in E : j <= i IN
        /\ r.ok
        /\ r.provider = n
        /\ r.conn.provider = n
        /\ r.conn.isHealthy
        /\ r.conn.currentConnectionIndex = n
        /\ \A i \in E \ {n} :
             r.conn.connections[i].errorCount > conn.connections[i].errorCount

C2_Witness ==
  /\ trace.op = "getProvider"
  /\ trace.ok
  /\ Len(trace.probed) >= 2
  /\ connections[trace.chainId].isHealthy
  /\ connections[trace.chainId].currentConnectionIndex = Last(trace.probed)
  /\ \A k \in 1..(Len(trace.probed) - 1) :
       connections[trace.chainId].connections[trace.probed[k]].errorCount > 0

\* C3: when every endpoint is skipped or fails its probe, resolve fails, the
\* connection is left unhealthy and getConnectionStatus reports the chain
\* unhealthy; the status of a chain turns from unhealthy to healthy only in a
\* step in which a resolve of that chain succeeds.
C3_AllFailedPost ==
  \A c \in ChainSet : \A fails \in AllProbes :
    LET conn == connections[c]
        r == getProvider(conn, fails)
    IN  (/\ ~cachedHealthy(conn)
         /\ \A i \in eligible(conn) : fails[i] > PRETRY_RETRIES)
        => /\ ~r.ok
           /\ r.provider = Null
           /\ ~r.conn.isHealthy

C3_StaysUnhealthy ==
  \A c \in ChainSet :
    (~getConnectionStatus[c] /\ getConnectionStatus'[c])
      => /\ trace'.chainId = c
         /\ trace'.established
         /\ trace'.ok
         /\ trace'.provider # Null

C3_AllEndpointsFailed ==
  [](C3_AllFailedPost /\ (trace.op = "getProvider" /\ ~trace.ok
                            => ~getConnectionStatus[trace.chainId]))
  /\ [][C3_StaysUnhealthy]_vars

C3_Witness ==
  /\ trace.op = "getProvider"
  /\ trace.established
  /\ ~trace.ok
  /\ trace.probed # <<>>
  /\ ~getConnectionStatus[trace.chainId]
  /\ phase = "running"

\* C4: establishConnection probes endpoints in increasing index order, probes
\* no endpoint that is inactive or has used up its retry budget, and selects
\* the lowest-index eligible endpoint whose probe succeeds (none: it fails).
C4_OrderedSelection ==
  \A c \in ChainSet : \A fails \in AllProbes :
    LET conn == connections[c]
        E == eligible(conn)
        good == {i \in E : fails[i] <= PRETRY_RETRIES}
        r == getProvider(conn, fails)
    IN  ~cachedHealthy(conn) =>
        /\ r.established
        /\ \A k \in 1..Len(r.probed) : r.probed[k] \in E
        /\ \A k \in 1..(Len(r.probed) - 1) : r.probed[k] < r.probed[k + 1]
        /\ r.ok <=> good # {}
        /\ r.ok =>
             /\ r.provider \in good
             /\ \A j \in good : r.provider <= j
             /\ {r.probed[k] : k \in 1..Len(r.probed)} = {i \in E : i <= r.provider}
        /\ ~r.ok => {r.probed[k] : k \in 1..Len(r.probed)} = E

C4_Witness ==
  /\ trace.op = "getProvider"
  /\ trace.established
  /\ trace.ok
  /\ \E i \in Endpoints :
       /\ i < trace.provider
       /\ ~connections[trace.chainId].connections[i].isActive
       /\ \A k \in 1..Len(trace.probed) : trace.probed[k] # i

\* C5: a health check of a chain always runs endpoint selection and probing
\* (establishConnection), also when the cached connection is healthy.
C5_HealthCheckReprobes ==
  trace.op = "updateBlockInfo" => trace.established

\* C6: while the bot runs, a deactivated endpoint is eventually active again
\* and an unhealthy chain eventually healthy again, given health checks that
\* keep running and find every endpoint reachable.
C6_Recovery ==
  /\ \A c \in ChainSet : \A i \in Endpoints :
       (phase = "running" /\ ~connections[c].connections[i].isActive)
         ~> connections[c].connections[i].isActive
  /\ \A c \in ChainSet :
       (phase = "running" /\ ~connections[c].isHealthy) ~> connections[c].isHealthy

\* C7: a connection failure never makes the process exit.
C7_ConnectionFailureNotFatal ==
  exitCause # "connection"

(***************************************************************************)
(* Properties of the price poller                                          *)
(***************************************************************************)
lastUpdateOf(k) == IF mapHas(lastUpdateTime, k) THEN lastUpdateTime[k] ELSE 0

C10_OthersProceed ==
  (cycle = "running" /\ \E f \in TaskIds : tasks[f].pc = "failed") =>
    \A t \in TaskIds :
      /\ tasks[t].pc = "resolve" => ENABLED fetchResolve(t)
      /\ tasks[t].pc = "read" => ENABLED fetchQuote(t)
      /\ tasks[t].pc = "store" => ENABLED fetchStore(t)

C10_ReturnsAfterAllSettled ==
  (cycle = "running" /\ cycle' = "idle") =>
    /\ \A t \in TaskIds : tasks[t].pc \in {"skipped", "unsupported", "stored", "failed"}
    /\ phase' = "running"
    /\ exitCause' = "none"
    /\ tasks' = tasks

C10_BestEffortFanOut ==
  []C10_OthersProceed /\ [][C10_ReturnsAfterAllSettled]_vars

\* a cycle has returned in which one task failed and a task that was still
\* in flight then went on to cache and store its quote
C10_Witness ==
  /\ cycle = "idle"
  /\ phase = "running"
  /\ \E f \in TaskIds, t \in TaskIds :
       /\ tasks[f].pc = "failed"
       /\ tasks[t].pc = "stored"
       /\ mapHas(priceCache, keyOf(t))
       /\ lastUpdateOf(keyOf(t)) = tasks[t].now

\* C11: the number of quote fetches in flight never exceeds
\* MAX_CONCURRENT_REQUESTS.
C11_ConcurrencyCeiling ==
  Cardinality(inFlight(tasks)) <= MAX_CONCURRENT_REQUESTS

\* C12: when a cycle starts a fetch for a combination that the cycle before
\* fetched (the fetch passed the rate-limit test and ended stored or
\* failed), at least PRICE_UPDATE_INTERVAL lies between the two fetches.
C12_RefetchStep ==
  \A t \in TaskIds :
    (/\ cycle = "idle" /\ cycle' = "running"
     /\ tasks[t].pc \in {"stored", "failed"}
     /\ tasks'[t].pc = "resolve")
    => tasks'[t].now - tasks[t].now >= PRICE_UPDATE_INTERVAL

C12_RateLimited == [][C12_RefetchStep]_vars

\* C13: no fetch for an active configured venue and a monitored pair ends
\* without a quote fetch through the venue's quote source (pc "unsupported":
\* the fetch passed the rate-limit test and its reads, and returned at the
\* default branch of the switch on the venue name).
C13_FullMatrixCoverage ==
  \A t \in TaskIds :
    Matrix[t].dexConfig.isActive => tasks[t].pc # "unsupported"

(***************************************************************************)
(* Properties of the detector                                              *)
(***************************************************************************)
ran == detection.op = "detect"

\* x = y on the fractions
same(x, y) == x.num * y.den = y.num * x.den

\* the quote of a venue in the list the detector compares
quoteOf(prices, chainId, dexName) ==
  CHOOSE price \in {prices[n] : n \in DOMAIN prices} :
    price.chainId = chainId /\ price.dexName = dexName

C15_ProfitabilityCorrect ==
  ran => \A n \in DOMAIN detection.computed :
           LET o == detection.computed[n] IN
           /\ o.gasCost.num =
                (detection.fee[o.sourceChain] + detection.fee[o.targetChain]) * o.gasCost.den
           /\ same(o.netProfit, minus(o.potentialProfit, o.gasCost))
           /\ o.isProfitable <=>
                (/\ o.netProfit.num > 0
                 /\ o.profitMargin.num >= MIN_PROFIT_THRESHOLD * o.profitMargin.den
                 /\ o.gasCost.num <= MAX_GAS_COST * o.gasCost.den)

\* one run computed a profitable opportunity and one that fails the test
\* only by its gas cost
C15_Witness ==
  /\ ran
  /\ \E n \in DOMAIN detection.computed : detection.computed[n].isProfitable
  /\ \E n \in DOMAIN detection.computed :
       LET o == detection.computed[n] IN
       /\ ~o.isProfitable
       /\ o.netProfit.num > 0
       /\ o.profitMargin.num >= MIN_PROFIT_THRESHOLD * o.profitMargin.den

\* C16: the potentialProfit of every opportunity is (sell price - buy price)
\* times the liquidity of the quote of its buy side, whichever of the two
\* quotes came first in the list.
C16_BuySideLiquidity ==
  ran => \A n \in DOMAIN detection.computed :
           LET o == detection.computed[n]
               buyQuote == quoteOf(recentOf(detection.allPrices, detection.now),
                                   o.sourceChain, o.sourceDex)
           IN  same(o.potentialProfit,
                    times(minus(o.targetPrice, o.sourcePrice), number(buyQuote.liquidity)))

\* C17: a run that returns, returns every opportunity it computed (one per
\* pair of fresh quotes of two venues whose difference meets the
\* threshold), whatever its isProfitable flag.
C17_ReturnsEveryOpportunity ==
  (ran /\ ~detection.threw) => detection.opportunities = detection.computed

\* C18: every opportunity passed to storeArbitrageOpportunity is
\* profitable, and every profitable opportunity the run computed was passed
\* to it exactly once.
C18_OnlyProfitablePersisted ==
  ran =>
    /\ \A n \in DOMAIN detection.stored : detection.stored[n].isProfitable
    /\ \A n \in DOMAIN detection.computed :
         detection.computed[n].isProfitable =>
           Cardinality({m \in DOMAIN detection.stored :
                          detection.stored[m] = detection.computed[n]}) = 1

\* one run stored two opportunities and computed one it did not store
C18_Witness ==
  /\ ran
  /\ Len(detection.stored) >= 2
  /\ Len(detection.computed) > Len(detection.stored)

\* what a run hands back: its opportunities, or the error
outcome(run) ==
  [threw |-> run.threw,
   opportunities |-> IF run.threw THEN <<>> ELSE run.opportunities]

\* C19: a second run of the detector on the same list of quotes at the same
\* time with the same gas estimates gives the same opportunities in the
\* same order as the first.
C19_Deterministic ==
  ran => \A failAt \in StoreCalls :
           outcome(calculateArbitrageOpportunities(
                     detection.allPrices, detection.now, detection.fee, failAt))
           = outcome(detection)

(***************************************************************************)
(* Properties of a cycle with a network that is down                       *)
(***************************************************************************)
chainOf(t) == Matrix[t].dexConfig.chainId

\* no cached healthy provider and no endpoint left to try
down(conn) == ~cachedHealthy(conn) /\ eligible(conn) = {}

\* the getProvider call of fetch t returns or throws in this step
resolves(t) == tasks[t].pc = "resolve" /\ tasks'[t].pc # "resolve"

\* a fetch whose getProvider call fails, as it must when its network is
\* down, ends failed without a write to the cache and without a change to
\* another fetch or to the connection of another network; a fetch whose
\* network has a cached healthy provider goes on to its reads
C20_ResolveStep ==
  \A t \in TaskIds :
    resolves(t) =>
      /\ down(connections[chainOf(t)]) => ~trace'.ok
      /\ cachedHealthy(connections[chainOf(t)]) => tasks'[t].pc = "read"
      /\ ~trace'.ok =>
           /\ tasks'[t].pc = "failed"
           /\ priceCache' = priceCache
           /\ lastUpdateTime' = lastUpdateTime
           /\ \A u \in TaskIds \ {t} : tasks'[u] = tasks[u]
           /\ \A c \in ChainSet \ {chainOf(t)} : connections'[c] = connections[c]

\* a failed fetch stays failed and writes nothing while its cycle lasts
C20_FailedStays ==
  \A t \in TaskIds :
    (tasks[t].pc = "failed" /\ cycle = "running" /\ cycle' = "running") =>
      /\ tasks'[t] = tasks[t]
      /\ mapHas(priceCache', keyOf(t)) = mapHas(priceCache, keyOf(t))
      /\ lastUpdateOf(keyOf(t))' = lastUpdateOf(keyOf(t))

\* a fetch at its reads caches the quote it computes from answered reads of
\* a supported venue, whatever the state of the other networks
C20_QuoteStep ==
  \A t \in TaskIds :
    (tasks[t].pc = "read" /\ tasks'[t].pc = "store") =>
      /\ mapHas(priceCache', keyOf(t))
      /\ priceCache'[keyOf(t)].chainId = chainOf(t)
      /\ lastUpdateOf(keyOf(t))' = tasks[t].now

\* while the connection of some network is down, every fetch in flight can
\* take its next step
C20_InFlightProceed ==
  (cycle = "running" /\ \E c \in ChainSet : down(connections[c])) =>
    \A t \in TaskIds :
      /\ tasks[t].pc = "resolve" => ENABLED fetchResolveWith(t, DegradedProbes)
      /\ tasks[t].pc = "read" => ENABLED fetchQuoteFrom(t, DegradedReads)
      /\ tasks[t].pc = "store" => ENABLED fetchStore(t)

C21_CyclesDoNotOverlap == Cardinality(callbacksInFlight(tasks)) <= 1

\* a fetch sends its reads through the provider getProvider gave it
readsThroughProvider(t) == tasks[t].pc = "read" /\ tasks'[t].pc # "read"

\* C22: the providers of a chain are destroyed only when no cycle is in
\* flight, and no fetch sends a read through a provider that has been
\* destroyed.
C22_ShutdownOrdering ==
  /\ [](closed # {} => cycle = "idle")
  /\ [][\A t \in TaskIds :
          readsThroughProvider(t) => Matrix[t].dexConfig.chainId \notin closed]_vars

\* C23: a fetch that has failed has recorded exactly one metric event, with
\* the operation name of its venue, success = false and the reason of the
\* failure.
C23_FailedFetchRecordsMetric ==
  \A t \in TaskIds :
    tasks[t].pc = "failed" =>
      /\ Len(tasks[t].metrics) = 1
      /\ tasks[t].metrics[1].operation = <<"price_fetch_", Matrix[t].dexConfig.name>>
      /\ ~tasks[t].metrics[1].success
      /\ tasks[t].metrics[1].errorMessage = tasks[t].error

(***************************************************************************)
(* Properties of the cost estimator and of the threshold test              *)
(***************************************************************************)
\* the fee read of the run failed for a chain the call estimated
feeFailed(call) ==
  \E n \in DOMAIN call.result.estimated : detection.fee[call.result.estimated[n]] = Null

\* what a chain adds to the cost of an opportunity: the fee read, 0 when the
\* read failed
costOf(chainId) == IF detection.fee[chainId] = Null THEN 0 ELSE detection.fee[chainId]

\* C24: when the connection or the fee read of a network fails, the estimate
\* is 0 and nothing is thrown: the call of calculateOpportunity that asked
\* for it still returns its opportunity, with 0 as the cost of that network,
\* and the opportunity is in the output of the run.
C24_EstimatorNeverThrows ==
  ran => \A n \in DOMAIN detection.calls :
           LET call == detection.calls[n] IN
           feeFailed(call) =>
             /\ call.result.ok
             /\ call.result.estimated =
                  <<call.result.opportunity.sourceChain, call.result.opportunity.targetChain>>
             /\ same(call.result.opportunity.gasCost,
                     number(costOf(call.result.opportunity.sourceChain)
                            + costOf(call.result.opportunity.targetChain)))
             /\ \E k \in DOMAIN detection.computed :
                  detection.computed[k] = call.result.opportunity

\* a run in which the fee read failed for a chain of a compared pair
C24_Witness ==
  /\ ran
  /\ \E n \in DOMAIN detection.calls :
       /\ feeFailed(detection.calls[n])
       /\ detection.calls[n].result.ok
       /\ detection.calls[n].result.opportunity.sourceChain
            # detection.calls[n].result.opportunity.targetChain

\* C30: a compared pair whose price difference is below MIN_PROFIT_THRESHOLD
\* per cent gives no opportunity, and the estimator is not called for it.
C30_DiscardedBeforeEstimate ==
  ran => \A n \in DOMAIN detection.calls :
           LET call == detection.calls[n] IN
           less(priceDifferencePercentOf(call.sourcePrice, call.targetPrice),
                number(MIN_PROFIT_THRESHOLD))
             => ~call.result.ok /\ call.result.estimated = <<>>

\* a run that compared a pair below the threshold and a pair above it
C30_Witness ==
  /\ ran
  /\ \E n, m \in DOMAIN detection.calls :
       /\ less(priceDifferencePercentOf(detection.calls[n].sourcePrice,
                                        detection.calls[n].targetPrice),
               number(MIN_PROFIT_THRESHOLD))
       /\ detection.calls[m].result.estimated # <<>>

\* validateOpportunity has returned
validated == detection.op = "validate"

C26_FailedStoreOnlyLogged ==
  ran =>
    LET whole == calculateArbitrageOpportunities(detection.allPrices, detection.now,
                                                 detection.fee, 0)
    IN  /\ ~detection.threw
        /\ detection.calls = whole.calls
        /\ detection.opportunities = whole.opportunities

\* C27: every profitable opportunity a run of the detector found has been
\* passed to an alert channel when the run ends.
C27_ProfitableAlerted ==
  ran => \A n \in DOMAIN detection.opportunities :
           \E k \in DOMAIN detection.alerted :
             detection.alerted[k] = detection.opportunities[n]

(***************************************************************************)
(* Properties of the endpoint records                                      *)
(***************************************************************************)
\* C29: when getProvider has to probe and the probe of an endpoint succeeds,
\* the call leaves that endpoint active with errorCount 0, it is the
\* currentConnectionIndex of the connection, and the connection is healthy
\* with the provider of that endpoint cached.
C29_SuccessfulProbe ==
  \A c \in ChainSet : \A fails \in AllProbes :
    LET r == getProvider(connections[c], fails) IN
    (r.established /\ r.ok) =>
      /\ r.provider \in Endpoints
      /\ r.conn.connections[r.provider].isActive
      /\ r.conn.connections[r.provider].errorCount = 0
      /\ r.conn.currentConnectionIndex = r.provider
      /\ r.conn.isHealthy
      /\ r.conn.provider = r.provider

\* a probe has just succeeded on the second endpoint after the first failed
C29_Witness ==
  /\ trace.op = "getProvider"
  /\ trace.established
  /\ trace.ok
  /\ trace.provider = 1
  /\ trace.probed = <<0, 1>>
  /\ connections[trace.chainId].connections[1].errorCount = 0
  /\ connections[trace.chainId].provider = 1

\* C28: an endpoint is inactive only if its errorCount has reached its
\* maxRetries, after any sequence of getProvider, getWebSocketProvider and
\* health checks.
C28_DeactivationRule ==
  \A c \in ChainSet : \A i \in Endpoints :
    ~connections[c].connections[i].isActive =>
      connections[c].connections[i].errorCount >= connections[c].connections[i].maxRetries

(***************************************************************************)
(* Properties of the detector's input and output                           *)
(***************************************************************************)
\* the age of a quote at the time of the run is below MAX_PRICE_AGE
fresh(price) == detection.now - price.timestamp < MAX_PRICE_AGE

\* the fresh quotes of a pair in the list handed to the run
freshOf(tokenPair) ==
  {n \in DOMAIN detection.allPrices :
     detection.allPrices[n].tokenPair = tokenPair /\ fresh(detection.allPrices[n])}

\* C31: a run of the detector compares only quotes whose age is below
\* MAX_PRICE_AGE, and computes nothing for a pair with fewer than two such
\* quotes; so no opportunity comes from a stale quote.
C31_StaleQuotesIgnored ==
  ran =>
    /\ \A n \in DOMAIN detection.calls :
         /\ fresh(detection.calls[n].sourcePrice)
         /\ fresh(detection.calls[n].targetPrice)
         /\ Cardinality(freshOf(detection.calls[n].sourcePrice.tokenPair)) >= 2
    /\ \A n \in DOMAIN detection.computed :
         \E k \in DOMAIN detection.calls :
           /\ detection.calls[k].result.ok
           /\ detection.calls[k].result.opportunity = detection.computed[n]
    /\ (\A n \in DOMAIN detection.allPrices :
          Cardinality(freshOf(detection.allPrices[n].tokenPair)) < 2)
         => detection.opportunities = <<>> /\ detection.computed = <<>>

\* a run on a stale quote and two fresh ones that computed an opportunity
C31_Witness ==
  /\ ran
  /\ \E n \in DOMAIN detection.allPrices : ~fresh(detection.allPrices[n])
  /\ detection.computed # <<>>

\* C32: a pair of quotes whose gross profit is zero never gives a profitable
\* opportunity, whatever the gas estimates: equal prices give no opportunity
\* at all, and a zero reference liquidity gives an opportunity with
\* potentialProfit 0 that is not profitable, not returned and not stored; the
\* division by zero of the margin raises nothing.
C32_ZeroGrossProfit ==
  ran => \A n \in DOMAIN detection.calls :
           LET call == detection.calls[n] IN
           /\ same(call.sourcePrice.price, call.targetPrice.price) => ~call.result.ok
           /\ (call.sourcePrice.liquidity = 0 /\ call.result.ok) =>
                /\ call.result.opportunity.potentialProfit.num = 0
                /\ ~call.result.opportunity.isProfitable
                /\ \A k \in DOMAIN detection.opportunities :
                     detection.opportunities[k] # call.result.opportunity
                /\ \A k \in DOMAIN detection.stored :
                     detection.stored[k] # call.result.opportunity

\* a run with gas estimates 0 that computed an opportunity from a quote with
\* no liquidity: net profit 0 and a margin of 0 / 0
C32_Witness ==
  /\ ran
  /\ \A c \in ChainSet : detection.fee[c] = 0
  /\ \E n \in DOMAIN detection.calls :
       /\ detection.calls[n].sourcePrice.liquidity = 0
       /\ detection.calls[n].result.ok
       /\ isNaN(detection.calls[n].result.opportunity.profitMargin)

resolvesDone(c) ==
  /\ cycle = "running"
  /\ \A t \in TaskIds : chainOf(t) = c => tasks[t].pc \in {"skipped", "read", "failed"}

\* a getProvider call of the cycle for chain c had to probe and succeeded
someProbeSucceeded(c) ==
  \E t \in TaskIds : chainOf(t) = c /\ tasks[t].pc = "read" /\ tasks[t].established

\* C35: when the getProvider calls a cycle made for a chain have all
\* completed and one of them succeeded by probing an endpoint, the chain is
\* healthy and the endpoint at currentConnectionIndex is active.
C35_ConcurrentResolves ==
  \A c \in ChainSet :
    (resolvesDone(c) /\ someProbeSucceeded(c)) =>
      /\ connections[c].isHealthy
      /\ connections[c].connections[connections[c].currentConnectionIndex].isActive

\* C36: a write to a key of the price cache stores a quote whose timestamp
\* is not older than the timestamp of the quote it replaces, also when the
\* fetches of two callbacks that overlap write the same key.
C36_NoRegression ==
  [][\A k \in DOMAIN priceCache :
       /\ k \in DOMAIN priceCache'
       /\ priceCache'[k].timestamp >= priceCache[k].timestamp]_vars

\* two fetches of one key from two callbacks have both written, the one
\* that started first wrote last
C36_Witness ==
  \E i, j \in DOMAIN tasks :
    /\ i # j
    /\ taskOf(i) = taskOf(j)
    /\ tasks[i].pc = "stored" /\ tasks[j].pc = "stored"
    /\ tasks[i].now < tasks[j].now
    /\ lastUpdateTime[keyOf(taskOf(i))] = tasks[i].now
    /\ priceCache[keyOf(taskOf(i))].timestamp >= tasks[j].now

\* two opportunities of the same two venues with the same computed fields
sameOpportunity(o, p) ==
  /\ o.tokenPair = p.tokenPair
  /\ o.sourceChain = p.sourceChain /\ o.sourceDex = p.sourceDex
  /\ o.targetChain = p.targetChain /\ o.targetDex = p.targetDex
  /\ same(o.potentialProfit, p.potentialProfit)
  /\ same(o.netProfit, p.netProfit)
  /\ same(o.profitMargin, p.profitMargin)
  /\ o.isProfitable = p.isProfitable

\* every opportunity of the first list is in the second
allAmong(first, second) ==
  \A n \in DOMAIN first : \E m \in DOMAIN second : sameOpportunity(first[n], second[m])

\* C37: a run of the detector on the same quotes in any other order, at the
\* same time and with the same gas estimates, produces the same
\* opportunities with the same gross profit, net profit, margin and
\* profitable flag.
C37_OrderIndependent ==
  (ran /\ ~detection.threw) =>
    \A order \in KeyOrders(priceCache) :
      LET other == calculateArbitrageOpportunities(
                     getAllCachedPrices(priceCache, order),
                     detection.now, detection.fee, 0)
      IN  /\ allAmong(detection.opportunities, other.opportunities)
          /\ allAmong(other.opportunities, detection.opportunities)

\* C38: an opportunity computed in a run in which the fee read of its buy
\* chain or of its sell chain failed is not flagged profitable and is not
\* passed to storeArbitrageOpportunity.
C38_UnestimatedNotActionable ==
  ran => \A n \in DOMAIN detection.calls :
           LET call == detection.calls[n] IN
           (call.result.ok /\ feeFailed(call)) =>
             /\ ~call.result.opportunity.isProfitable
             /\ \A k \in DOMAIN detection.stored :
                  detection.stored[k] # call.result.opportunity

(***************************************************************************)
(* ChainManager: the singleton serves its callers from module load on      *)
(***************************************************************************)
\* a getWebSocketProvider call on the exported manager while the bot is
\* still starting: the constructor has run initializeConnections, and
\* testChainConnections has not yet asked for every chain
webSocketBeforeRunning(c) ==
  /\ phase \in {"init", "starting"}
  /\ \E answers \in [Endpoints -> BOOLEAN] :
       LET r == getWebSocketProvider(connections[c], answers) IN
       /\ connections' = [connections EXCEPT ![c] = r.conn]
       /\ trace' = Traced("getWebSocketProvider", c, r)
  /\ UNCHANGED <<phase, exitCause, startIdx, healthIdx, pollVars, detVars, stopVars>>

ClientNext ==
  \/ Boot
  \/ testChainConnections
  \/ \E c \in ChainSet : resolve(c)
  \/ \E c \in ChainSet : resolveWebSocket(c)
  \/ \E c \in ChainSet : webSocketBeforeRunning(c)
  \/ startHealthChecks
  \/ performHealthCheck

ClientSpec == Init /\ [][ClientNext]_vars

\* C39: a network whose connection is marked healthy has a cached
\* provider: getConnectionStatus never reports healthy for a network that
\* getProvider could not serve from its cache.
C39_HealthyHasProvider ==
  \A c \in ChainSet :
    getConnectionStatus[c] => connections[c].provider # Null

(***************************************************************************)
(* MevBot: start() and stop() calls on one bot                             *)
(***************************************************************************)
\* start() up to its first await: the isRunning test, then
\* await this.initializeServices()
startCall(n) ==
  /\ lifecycle.starts[n] = "idle"
  /\ lifecycle' =
       IF lifecycle.isRunning
       THEN [lifecycle EXCEPT !.starts[n] = "returned"]
       ELSE [lifecycle EXCEPT !.starts[n] = "initializing",
                              !.stopReturned = FALSE,
                              !.cycles = {}]
  /\ UNCHANGED <<connections, botVars, trace, pollVars, detVars, closed>>

\* initializeServices of a start() call settles: on success
\* startPriceMonitoring and startHealthChecks each call setInterval and
\* store the handle, then isRunning = true; on failure start() rethrows
startResumes(n) ==
  /\ lifecycle.starts[n] = "initializing"
  /\ \E initialized \in BOOLEAN :
       lifecycle' =
         IF initialized
         THEN [lifecycle EXCEPT
                 !.priceMonitoringInterval = 2 * n - 1,
                 !.healthCheckInterval = 2 * n,
                 !.timers = @ \cup {[id |-> 2 * n - 1, kind |-> "price"],
                                    [id |-> 2 * n, kind |-> "health"]},
                 !.isRunning = TRUE,
                 !.starts[n] = "returned"]
         ELSE [lifecycle EXCEPT !.starts[n] = "threw"]
  /\ UNCHANGED <<connections, botVars, trace, pollVars, detVars, closed>>

\* stop() up to its await: the isRunning test, clearInterval of the two
\* handles the bot holds, then await this.cleanupServices(); a stop() on a
\* bot that is not running returns at once and changes nothing
stopCall ==
  /\ lifecycle.isRunning
  /\ ~lifecycle.stopping
  /\ lifecycle' =
       [lifecycle EXCEPT
          !.timers = {t \in @ : t.id \notin {lifecycle.healthCheckInterval,
                                              lifecycle.priceMonitoringInterval}},
          !.stopping = TRUE]
  /\ UNCHANGED <<connections, botVars, trace, pollVars, detVars, closed>>

\* cleanupServices settles: isRunning = false and stop() returns
stopReturns ==
  /\ lifecycle.stopping
  /\ lifecycle' = [lifecycle EXCEPT !.isRunning = FALSE,
                                    !.stopping = FALSE,
                                    !.stopReturned = TRUE]
  /\ UNCHANGED <<connections, botVars, trace, pollVars, detVars, closed>>

\* the intervals the start() calls can create
Timers == [id : 1..(2 * MaxStarts), kind : {"price", "health"}]

\* an interval that was not cleared fires and its callback begins a cycle
intervalFires(t) ==
  /\ t \in lifecycle.timers
  /\ lifecycle' =
       [lifecycle EXCEPT
          !.cycles = @ \cup {[id |-> t.id, kind |-> t.kind,
                              afterStop |-> lifecycle.stopReturned]}]
  /\ UNCHANGED <<connections, botVars, trace, pollVars, detVars, closed>>

LifecycleNext ==
  \/ \E n \in StartCalls : startCall(n)
  \/ \E n \in StartCalls : startResumes(n)
  \/ stopCall
  \/ stopReturns
  \/ \E t \in Timers : intervalFires(t)

LifecycleSpec == Init /\ [][LifecycleNext]_vars

\* the live intervals of one kind
timersOf(kind) == {t \in lifecycle.timers : t.kind = kind}

\* C40: however start() calls interleave, at most one price-monitoring
\* interval and one health-check interval are live, and once stop() has
\* returned no monitoring or health-check cycle begins.
C40_LifecycleGuard ==
  /\ Cardinality(timersOf("price")) <= 1
  /\ Cardinality(timersOf("health")) <= 1
  /\ \A c \in lifecycle.cycles : ~c.afterStop

====
